---- MODULE Spec2Model ----
(***************************************************************************)
(* Generation job queue of the stable-diffusion Discord bot.               *)
(*                                                                         *)
(* Three groups of definitions:                                            *)
(*   - the two job queues (imagine_queue.queueImplementation, the primary  *)
(*     pipeline, and novelai.NAIQueue, the secondary one): enqueue, the    *)
(*     polling loop, cancel, interrupt, the driver goroutine and done();   *)
(*   - the enqueue path alone at the real channel capacity;                *)
(*   - one job's processImagineGrid with the model switch / revert and the *)
(*     progress poller.                                                    *)
(* The two queues are separate objects that share no state, so a behaviour *)
(* follows one of them (variable pipeline).                                *)
(***************************************************************************)
EXTENDS Integers, Sequences, FiniteSets, TLC

\* ---------------------------------------------------------------- bounds
MaxJobs == 2
MaxNAIJobs == 3
MaxInterrupts == 1
MaxCancels == 2
MaxAddCalls == 101
MaxTicks == 3

\* calls of NAIQueue.Stop
MaxStops == 2

\* upserts of the default settings that fail
MaxFailedUpserts == 2
MaxNAIAddCalls == 26
MaxConcurrentAdds == 2
RaceWindow == 3
RefreshHead == 3
MaxRefreshAddCalls == 28

\* ------------------------------------------------------ program constants
QueueCap == 100
NAIQueueCap == 24
ItemTypeImagine == 0
ItemTypeReroll == 1
ItemTypeUpscale == 2
ItemTypeVariation == 3
ItemTypeImg2Img == 4
ItemTypeRaw == 5

\* an ItemType value outside the iota block (the switch's default branch)
UnknownItemType == 6

\* nil pointers / nil channels
NoJob == 0
NoInteraction == 0
NoChan == 0

\* "initializedWidth = 512", "initializedHeight = 512"
initializedWidth == 512
initializedHeight == 512

\* ----------------------------------------------------------------- state
VARIABLES
    pipeline,        \* which queue object the behaviour follows: "primary" | "secondary"
    item,            \* the QueueItems created so far: [Type, DiscordInteraction, Interrupt]
    add,             \* per item: its AddImagine / Add call [pc, pos]
    queue,           \* buffer of the channel q.queue
    sendq,           \* goroutines blocked in "q.queue <- item"
    currentImagine,  \* q.currentImagine / q.current
    cancelledItems,  \* q.cancelledItems / q.cancelled (the keys mapped to true)
    pollpc,          \* position of the polling goroutine
    crashed,         \* an unrecovered panic has ended the process
    drv,             \* per item: its driver goroutine [pc, c, poller, sel, done]
    intr,            \* per Interrupt call: [pc, ch]
    waiting,         \* locals of NAIQueue.updateWaiting
    hist,            \* history of what has been observed, for the properties
    live,            \* the backend's live configuration (checkpoint, VAE, hypernetwork)
    request,         \* queue.ImageGenerationRequest: the three requested models
    config,          \* processImagineGrid's local config
    originalConfig,  \* processImagineGrid's local originalConfig
    grid,            \* position in processImagineGrid, its error, the poller, generationDone
    calls,           \* the calls processImagineGrid has made, and what it was given
    parse,           \* one derivation of generation parameters from a prompt
    api,             \* one call of the backend API client, and the backend's reachability
    settings,        \* q.botDefaultSettings and the record of the settings repository
    stop             \* NAIQueue.stop and the calls of NAIQueue.Stop

qvars == << pipeline, item, add, queue, sendq, currentImagine, cancelledItems,
            pollpc, crashed, drv, intr, waiting, hist >>

dvars == << live, request, config, originalConfig, grid, calls >>

vars == << qvars, dvars, parse, api, settings, stop >>

Jobs == 1 .. Len(item)
Calls == 1 .. MaxInterrupts

\* the item kinds drawn by the enqueue actions (processUpscaleImagine is not
\* among the modelled functions, so no upscale item is drawn)
SampleTypes == { ItemTypeImagine, ItemTypeReroll, UnknownItemType }

\* a counter of the history, capped
Bump(n) == IF n < 2 THEN n + 1 ELSE 2

NoWaiting == [ active |-> FALSE, inflight |-> {}, finished |-> << >>, left |-> 0,
               back |-> 0, ret |-> "select" ]

InitQueue ==
    /\ item = << >>
    /\ add = << >>
    /\ queue = << >>
    /\ sendq = << >>
    /\ currentImagine = NoJob
    /\ cancelledItems = {}
    /\ pollpc = "select"
    /\ crashed = FALSE
    /\ drv = << >>
    /\ intr = [ k \in Calls |-> [ pc |-> "idle", ch |-> NoChan ] ]
    /\ waiting = NoWaiting
    /\ hist = [ order |-> << >>,        \* jobs in the order they became q.currentImagine
                skipped |-> {},         \* jobs dropped as cancelled at dequeue
                cancelQueued |-> {},    \* jobs whose cancel completed while Queued
                cancels |-> 0,          \* cancel calls made
                addFull |-> {},         \* jobs whose enqueue found the FIFO full
                backendCalls |-> {},    \* jobs for which a backend call was made
                replied |-> {},         \* jobs whose interaction received a reply or an edit
                signals |-> [ k \in Calls |-> 0 ] ]  \* per call: signals delivered

\* the QueueItem the caller hands over; h is the handle of its interaction
QueueItem(t, h) == [ Type |-> t, DiscordInteraction |-> h, Interrupt |-> NoChan ]

\* "DiscordInteraction == nil" of pullNextInQueue, "i != nil" of requireInteraction
InteractionIsNil_Never(h) == FALSE

InteractionIsNil(h) == h = NoInteraction

NoDriver == [ pc |-> "none", c |-> NoJob, poller |-> "off", sel |-> NoChan, done |-> "nil" ]

\* no parameter derivation is under way
IdleParse == parse = [ pc |-> "idle" ]

\* no call of the API client is under way, and the backend is reachable
\* a *entities.DefaultSettings that is nil, and the repository without a
\* record of the bot (GetByMemberID returns NotFoundError)
NoSettings == << >>

\* the calls of NAIQueue.Stop
StopCalls == 1 .. MaxStops

\* after New: nothing is cached, nothing is stored; q.stop is nil
IdleSettings == settings = [ cached |-> NoSettings, stored |-> NoSettings, failed |-> 0 ]

IdleStop == stop = [ ch |-> "nil", pc |-> [ k \in StopCalls |-> "idle" ] ]

IdleApi ==
    api = [ pc |-> "idle", op |-> "none", req |-> TRUE, alive |-> TRUE, down |-> FALSE,
            probes |-> 0, requests |-> 0, ret |-> "none" ]

\* ---------------------------------------------------- primary: AddImagine
\* "q.queue <- item": the value enters the buffer, or the caller blocks
AddImagineSend(t, h) ==
    LET j == Len(item) + 1 IN
    /\ ~crashed
    /\ item' = Append(item, QueueItem(t, IF h THEN j ELSE NoInteraction))
    /\ drv' = Append(drv, NoDriver)
    /\ IF Len(queue) < QueueCap
          THEN /\ queue' = Append(queue, j)
               /\ sendq' = sendq
               /\ add' = Append(add, [ pc |-> "sent", pos |-> 0 ])
               /\ hist' = hist
          ELSE /\ sendq' = Append(sendq, j)
               /\ queue' = queue
               /\ add' = Append(add, [ pc |-> "blocked", pos |-> 0 ])
               /\ hist' = [ hist EXCEPT !.addFull = @ \cup {j} ]
    /\ UNCHANGED << stop, settings, api, parse, dvars, pipeline, currentImagine, cancelledItems, pollpc, crashed,
                    intr, waiting >>

\* "linePosition := len(q.queue); return linePosition, nil"
AddImagineReturn(j) ==
    /\ ~crashed
    /\ add[j].pc = "sent"
    /\ add' = [ add EXCEPT ![j] = [ pc |-> "returned", pos |-> Len(queue) ] ]
    /\ UNCHANGED << stop, settings, api, parse, dvars, pipeline, item, queue, sendq, currentImagine, cancelledItems,
                    pollpc, crashed, drv, intr, waiting, hist >>

\* ------------------------------------------- primary: the polling goroutine
\* "<-q.queue" on the buffered channel: the runtime moves the value of the
\* first blocked sender into the slot the receive frees
AfterReceive(q, s) == IF s = << >> THEN Tail(q) ELSE Append(Tail(q), Head(s))

Unblock(a, s) == IF s = << >> THEN a ELSE [ a EXCEPT ![Head(s)].pc = "sent" ]

\* "if q.currentImagine != nil { log.Printf(WARNING ...); return }"
AlreadyProcessing_Never == FALSE

AlreadyProcessing == currentImagine # NoJob

\* "q.cancelledItems[q.currentImagine.DiscordInteraction.ID]"
IsCancelled_Never(h) == FALSE

IsCancelled(h) == h \in cancelledItems

\* the goroutine the switch on q.currentImagine.Type starts
DispatchFor(t) ==
    CASE t \in { ItemTypeImagine, ItemTypeReroll, ItemTypeVariation, ItemTypeRaw }
              -> "processCurrentImagine"
      [] t = ItemTypeImg2Img -> "processImg2ImgImagine"
      [] t = ItemTypeUpscale -> "processUpscaleImagine"
      [] OTHER -> "unknown"

\* done(): under q.mu, "q.currentImagine = nil"
done_Keep == currentImagine' = currentImagine

done == currentImagine' = NoJob

\* StartPolling, "case <-time.After(1 * time.Second)" with q.currentImagine == nil
StartPollingTick ==
    /\ ~crashed /\ pipeline = "primary" /\ pollpc = "select"
    /\ currentImagine = NoJob
    /\ pollpc' = "pull"
    /\ UNCHANGED << stop, settings, api, parse, dvars, pipeline, item, add, queue, sendq, currentImagine,
                    cancelledItems, crashed, drv, intr, waiting, hist >>

\* StartPolling, "case <-stop: break Polling"
StartPollingStop ==
    /\ ~crashed /\ pipeline = "primary" /\ pollpc = "select"
    /\ pollpc' = "stopped"
    /\ UNCHANGED << stop, settings, api, parse, dvars, pipeline, item, add, queue, sendq, currentImagine,
                    cancelledItems, crashed, drv, intr, waiting, hist >>

\* pullNextInQueue: the loop condition, the guard and the receive
pullNextInQueue ==
    /\ ~crashed /\ pipeline = "primary" /\ pollpc = "pull"
    /\ IF Len(queue) = 0 \/ AlreadyProcessing
          THEN /\ pollpc' = "select"
               /\ UNCHANGED << queue, sendq, add, currentImagine, hist >>
          ELSE /\ currentImagine' = Head(queue)
               /\ queue' = AfterReceive(queue, sendq)
               /\ sendq' = IF sendq = << >> THEN sendq ELSE Tail(sendq)
               /\ add' = Unblock(add, sendq)
               /\ hist' = [ hist EXCEPT !.order = Append(@, Head(queue)) ]
               /\ pollpc' = "pulled"
    /\ UNCHANGED << stop, settings, api, parse, dvars, pipeline, item, cancelledItems, crashed, drv, intr,
                    waiting >>

\* "if q.currentImagine.DiscordInteraction == nil { log.Panicf(...) }"
\* (also the nil dereference when q.currentImagine itself is nil)
PullPanic ==
    /\ ~crashed /\ pipeline = "primary" /\ pollpc = "pulled"
    /\ \/ currentImagine = NoJob
       \/ /\ currentImagine # NoJob
          /\ InteractionIsNil(item[currentImagine].DiscordInteraction)
    /\ crashed' = TRUE
    /\ UNCHANGED << stop, settings, api, parse, dvars, pipeline, item, add, queue, sendq, currentImagine,
                    cancelledItems, pollpc, drv, intr, waiting, hist >>

\* the item is cancelled: "delete(q.cancelledItems, interaction.ID)"
PullCancelled ==
    /\ ~crashed /\ pipeline = "primary" /\ pollpc = "pulled"
    /\ currentImagine # NoJob
    /\ LET c == currentImagine
           h == item[c].DiscordInteraction IN
       /\ ~InteractionIsNil(h)
       /\ IsCancelled(h)
       /\ cancelledItems' = cancelledItems \ {h}
       /\ hist' = [ hist EXCEPT !.skipped = @ \cup {c} ]
    /\ pollpc' = "skip"
    /\ UNCHANGED << stop, settings, api, parse, dvars, pipeline, item, add, queue, sendq, currentImagine,
                    crashed, drv, intr, waiting >>

\* "q.done(); return" of the cancelled branch
PullCancelledDone ==
    /\ ~crashed /\ pipeline = "primary" /\ pollpc = "skip"
    /\ done
    /\ pollpc' = "select"
    /\ UNCHANGED << stop, settings, api, parse, dvars, pipeline, item, add, queue, sendq, cancelledItems,
                    crashed, drv, intr, waiting, hist >>

\* "go q.processCurrentImagine()" and the other two "go" statements
PullDispatch ==
    /\ ~crashed /\ pipeline = "primary" /\ pollpc = "pulled"
    /\ currentImagine # NoJob
    /\ LET c == currentImagine
           h == item[c].DiscordInteraction IN
       /\ ~InteractionIsNil(h)
       /\ ~IsCancelled(h)
       /\ DispatchFor(item[c].Type) # "unknown"
       /\ drv' = [ drv EXCEPT ![c].pc = "spawned" ]
    /\ pollpc' = "pull"
    /\ UNCHANGED << stop, settings, api, parse, dvars, pipeline, item, add, queue, sendq, currentImagine,
                    cancelledItems, crashed, intr, waiting, hist >>

\* "default:" the error reply for an unknown item type
PullUnknown ==
    /\ ~crashed /\ pipeline = "primary" /\ pollpc = "pulled"
    /\ currentImagine # NoJob
    /\ LET c == currentImagine
           h == item[c].DiscordInteraction IN
       /\ ~InteractionIsNil(h)
       /\ ~IsCancelled(h)
       /\ DispatchFor(item[c].Type) = "unknown"
       /\ hist' = [ hist EXCEPT !.replied = @ \cup { c } ]
    /\ pollpc' = "unknown"
    /\ UNCHANGED << stop, settings, api, parse, dvars, pipeline, item, add, queue, sendq, currentImagine,
                    cancelledItems, crashed, drv, intr, waiting >>

\* "q.done()" of the default branch; the for loop goes on
PullUnknownDone ==
    /\ ~crashed /\ pipeline = "primary" /\ pollpc = "unknown"
    /\ done
    /\ pollpc' = "pull"
    /\ UNCHANGED << stop, settings, api, parse, dvars, pipeline, item, add, queue, sendq, cancelledItems,
                    crashed, drv, intr, waiting, hist >>

\* ------------------------------------------------ primary: RemoveFromQueue
\* a job is Queued while it sits in the channel, Current once it is dispatched
IsQueued(j) == \E i \in 1 .. Len(queue) : queue[i] = j

IsCurrent(j) == drv[j].pc \notin { "none", "returned" }

\* under q.mu: "q.cancelledItems[messageInteraction.ID] = true"
MarkCancelled_All(h) == cancelledItems' = cancelledItems \cup Jobs

MarkCancelled(h) == cancelledItems' = cancelledItems \cup {h}

RemoveFromQueue(h) ==
    /\ ~crashed /\ pipeline = "primary"
    /\ MarkCancelled(h)
    /\ hist' = [ hist EXCEPT
                   !.cancels = @ + 1,
                   !.cancelQueued = IF IsQueued(h) THEN @ \cup {h} ELSE @ ]
    /\ UNCHANGED << stop, settings, api, parse, dvars, pipeline, item, add, queue, sendq, currentImagine,
                    pollpc, crashed, drv, intr, waiting >>

\* ------------------------------------------ primary: the driver goroutine
\* processCurrentImagine: "go func() { defer q.done(); ... c := q.currentImagine"
DriverBegin(d) ==
    /\ ~crashed /\ pipeline = "primary"
    /\ drv[d].pc = "spawned"
    /\ DispatchFor(item[d].Type) # "processUpscaleImagine"
    /\ IF currentImagine = NoJob
          THEN crashed' = TRUE /\ drv' = drv
          ELSE crashed' = crashed
               /\ drv' = [ drv EXCEPT ![d].pc = "prepare", ![d].c = currentImagine ]
    /\ UNCHANGED << stop, settings, api, parse, dvars, pipeline, item, add, queue, sendq, currentImagine,
                    cancelledItems, pollpc, intr, waiting, hist >>

NeedsPrevious(t) == t \in { ItemTypeReroll, ItemTypeVariation }

\* parameter derivation, q.stableDiffusionAPI.GetConfig(), then for a reroll or
\* a variation getPreviousGeneration fails: error reply and return
DriverLookupFails(d) ==
    /\ ~crashed /\ pipeline = "primary"
    /\ drv[d].pc = "prepare"
    /\ NeedsPrevious(item[drv[d].c].Type)
    /\ drv' = [ drv EXCEPT ![d].pc = "return" ]
    /\ hist' = [ hist EXCEPT !.backendCalls = @ \cup { drv[d].c },
                             !.replied = @ \cup { drv[d].c } ]
    /\ UNCHANGED << stop, settings, api, parse, dvars, pipeline, item, add, queue, sendq, currentImagine,
                    cancelledItems, pollpc, crashed, intr, waiting >>

\* ... or the call of q.processImagineGrid is reached
DriverEnterGrid(d) ==
    /\ ~crashed /\ pipeline = "primary"
    /\ drv[d].pc = "prepare"
    /\ drv' = [ drv EXCEPT ![d].pc = "grid" ]
    /\ hist' = [ hist EXCEPT !.backendCalls = @ \cup { drv[d].c } ]
    /\ UNCHANGED << stop, settings, api, parse, dvars, pipeline, item, add, queue, sendq, currentImagine,
                    cancelledItems, pollpc, crashed, intr, waiting >>

\* processImagineGrid returns an error before the poller is started
\* (switchToModels, showInitialMessage or recordToRepository failed)
GridEarlyError(d) ==
    /\ ~crashed /\ pipeline = "primary"
    /\ drv[d].pc = "grid"
    /\ drv' = [ drv EXCEPT ![d].pc = "error" ]
    /\ hist' = [ hist EXCEPT !.backendCalls = @ \cup { drv[d].c } ]
    /\ UNCHANGED << stop, settings, api, parse, dvars, pipeline, item, add, queue, sendq, currentImagine,
                    cancelledItems, pollpc, crashed, intr, waiting >>

\* switchToModels, showInitialMessage, recordToRepository succeed;
\* "generationDone := make(chan bool, 1); go q.updateProgressBar(...)"
GridStartPoller(d) ==
    /\ ~crashed /\ pipeline = "primary"
    /\ drv[d].pc = "grid"
    /\ drv' = [ drv EXCEPT ![d].pc = "generating", ![d].poller = "select",
                           ![d].sel = item[drv[d].c].Interrupt,
                           ![d].done = "empty" ]
    /\ hist' = [ hist EXCEPT !.backendCalls = @ \cup { drv[d].c },
                             !.replied = @ \cup { drv[d].c } ]
    /\ UNCHANGED << stop, settings, api, parse, dvars, pipeline, item, add, queue, sendq, currentImagine,
                    cancelledItems, pollpc, crashed, intr, waiting >>

\* the generation call returns, "generationDone <- true"; on an error or a nil
\* response processImagineGrid returns (the deferred close(generationDone) runs)
GridGenerationReturns(d, ok) ==
    /\ ~crashed /\ pipeline = "primary"
    /\ drv[d].pc = "generating"
    /\ drv' = [ drv EXCEPT ![d].pc = IF ok THEN "final" ELSE "error",
                           ![d].done = IF ok THEN "sent" ELSE "closed" ]
    /\ UNCHANGED << stop, settings, api, parse, dvars, pipeline, item, add, queue, sendq, currentImagine,
                    cancelledItems, pollpc, crashed, intr, waiting, hist >>

\* showFinalMessage, then revertModels; processImagineGrid returns
GridFinal(d, ok) ==
    /\ ~crashed /\ pipeline = "primary"
    /\ drv[d].pc = "final"
    /\ drv' = [ drv EXCEPT ![d].pc = IF ok THEN "return" ELSE "error",
                           ![d].done = "closed" ]
    /\ hist' = [ hist EXCEPT !.backendCalls = @ \cup { drv[d].c },
                             !.replied = IF ok THEN @ \cup { drv[d].c } ELSE @ ]
    /\ UNCHANGED << stop, settings, api, parse, dvars, pipeline, item, add, queue, sendq, currentImagine,
                    cancelledItems, pollpc, crashed, intr, waiting >>

\* "if err != nil { handlers.Errors[handlers.ErrorResponse](...); return }"
DriverErrorReply(d) ==
    /\ ~crashed /\ pipeline = "primary"
    /\ drv[d].pc = "error"
    /\ drv' = [ drv EXCEPT ![d].pc = "return" ]
    /\ hist' = [ hist EXCEPT !.replied = @ \cup { drv[d].c } ]
    /\ UNCHANGED << stop, settings, api, parse, dvars, pipeline, item, add, queue, sendq, currentImagine,
                    cancelledItems, pollpc, crashed, intr, waiting >>

\* the deferred q.done() of the driver goroutine
DriverDone(d) ==
    /\ ~crashed /\ pipeline = "primary"
    /\ drv[d].pc = "return"
    /\ done
    /\ drv' = [ drv EXCEPT ![d].pc = "returned" ]
    /\ UNCHANGED << stop, settings, api, parse, dvars, pipeline, item, add, queue, sendq, cancelledItems,
                    pollpc, crashed, intr, waiting, hist >>

\* ------------------------------------------------------ updateProgressBar
\* "case <-generationDone: return" (a value was sent, or the channel is closed)
PollerCompletion(d) ==
    /\ ~crashed /\ pipeline = "primary"
    /\ drv[d].poller = "select"
    /\ drv[d].done \in { "sent", "closed" }
    /\ drv' = [ drv EXCEPT ![d].poller = "exited" ]
    /\ UNCHANGED << stop, settings, api, parse, dvars, pipeline, item, add, queue, sendq, currentImagine,
                    cancelledItems, pollpc, crashed, intr, waiting, hist >>

\* "case _, ok := <-item.Interrupt": the receive completes the send of call k;
\* q.stableDiffusionAPI.Interrupt(), then the error edit or the
\* "Generation Interrupted" edit, and return
PollerInterrupt(d, k) ==
    /\ ~crashed /\ pipeline = "primary"
    /\ drv[d].poller = "select"
    /\ drv[d].sel # NoChan
    /\ intr[k].pc = "sending"
    /\ intr[k].ch = drv[d].sel
    /\ drv' = [ drv EXCEPT ![d].poller = "exited" ]
    /\ intr' = [ intr EXCEPT ![k].pc = "returned" ]
    /\ hist' = [ hist EXCEPT !.signals[k] = Bump(@),
                             !.backendCalls = @ \cup { drv[d].c },
                             !.replied = @ \cup { drv[d].c } ]
    /\ UNCHANGED << stop, settings, api, parse, dvars, pipeline, item, add, queue, sendq, currentImagine,
                    cancelledItems, pollpc, crashed, waiting >>

\* "case <-time.After(1 * time.Second)": the progress query; with zero progress
\* or after the status edit the loop re-enters select
PollerTick(d) ==
    /\ ~crashed /\ pipeline = "primary"
    /\ drv[d].poller = "select"
    /\ drv' = [ drv EXCEPT ![d].sel = item[drv[d].c].Interrupt ]
    /\ hist' = [ hist EXCEPT !.backendCalls = @ \cup { drv[d].c } ]
    /\ UNCHANGED << stop, settings, api, parse, dvars, pipeline, item, add, queue, sendq, currentImagine,
                    cancelledItems, pollpc, crashed, intr, waiting >>

\* the progress query or the status edit fails, or "case <-timeout.C": return
PollerGiveUp(d) ==
    /\ ~crashed /\ pipeline = "primary"
    /\ drv[d].poller = "select"
    /\ drv' = [ drv EXCEPT ![d].poller = "exited" ]
    /\ hist' = [ hist EXCEPT !.backendCalls = @ \cup { drv[d].c },
                             !.replied = @ \cup { drv[d].c } ]
    /\ UNCHANGED << stop, settings, api, parse, dvars, pipeline, item, add, queue, sendq, currentImagine,
                    cancelledItems, pollpc, crashed, intr, waiting >>

\* ------------------------------------------------------------- Interrupt
\* "if q.currentImagine == nil { return errors.New(...) }"
NoActiveJob_Never == FALSE

NoActiveJob == currentImagine = NoJob

InterruptCheck(k) ==
    /\ ~crashed
    /\ intr[k].pc = "idle"
    /\ intr' = [ intr EXCEPT ![k].pc = IF NoActiveJob THEN "error" ELSE "checked" ]
    /\ UNCHANGED << stop, settings, api, parse, dvars, pipeline, item, add, queue, sendq, currentImagine,
                    cancelledItems, pollpc, crashed, drv, waiting, hist >>

\* log.Printf(... q.currentImagine.DiscordInteraction.ID) and
\* "if q.currentImagine.Interrupt == nil"; a nil pointer here is a panic
InterruptInspect(k) ==
    /\ ~crashed
    /\ intr[k].pc = "checked"
    /\ IF currentImagine = NoJob
          THEN crashed' = TRUE /\ intr' = intr
          ELSE IF item[currentImagine].DiscordInteraction = NoInteraction
          THEN crashed' = TRUE /\ intr' = intr
          ELSE /\ crashed' = crashed
               /\ intr' = [ intr EXCEPT ![k].pc =
                     IF item[currentImagine].Interrupt = NoChan THEN "make" ELSE "send" ]
    /\ UNCHANGED << stop, settings, api, parse, dvars, pipeline, item, add, queue, sendq, currentImagine,
                    cancelledItems, pollpc, drv, waiting, hist >>

\* "q.currentImagine.Interrupt = make(chan *discordgo.Interaction)"
InterruptMake(k) ==
    /\ ~crashed
    /\ intr[k].pc = "make"
    /\ IF currentImagine = NoJob
          THEN crashed' = TRUE /\ intr' = intr /\ item' = item
          ELSE /\ crashed' = crashed
               /\ item' = [ item EXCEPT ![currentImagine].Interrupt = k ]
               /\ intr' = [ intr EXCEPT ![k].pc = "send" ]
    /\ UNCHANGED << stop, settings, api, parse, dvars, pipeline, add, queue, sendq, currentImagine,
                    cancelledItems, pollpc, drv, waiting, hist >>

\* "q.currentImagine.Interrupt <- i.Interaction": the channel is unbuffered, the
\* caller waits for the receive of the poller
InterruptSend(k) ==
    /\ ~crashed
    /\ intr[k].pc = "send"
    /\ IF currentImagine = NoJob
          THEN crashed' = TRUE /\ intr' = intr
          ELSE /\ crashed' = crashed
               /\ intr' = [ intr EXCEPT ![k].pc = "sending",
                                        ![k].ch = item[currentImagine].Interrupt ]
    /\ UNCHANGED << stop, settings, api, parse, dvars, pipeline, item, add, queue, sendq, currentImagine,
                    cancelledItems, pollpc, drv, waiting, hist >>

Interrupt(k) ==
    /\ pipeline = "primary"
    /\ \/ InterruptCheck(k)
       \/ InterruptInspect(k)
       \/ InterruptMake(k)
       \/ InterruptSend(k)

\* ------------------------------------------------------ the primary queue
AddImagine ==
    /\ pipeline = "primary"
    /\ Len(item) < MaxJobs
    /\ \/ \E t \in SampleTypes : AddImagineSend(t, TRUE)
       \/ AddImagineSend(ItemTypeImagine, FALSE)

Cancel ==
    /\ hist.cancels < MaxCancels
    /\ \E h \in Jobs : item[h].DiscordInteraction # NoInteraction /\ RemoveFromQueue(h)

Polling ==
    \/ StartPollingTick
    \/ pullNextInQueue
    \/ PullPanic
    \/ PullCancelled
    \/ PullCancelledDone
    \/ PullDispatch
    \/ PullUnknown
    \/ PullUnknownDone

Driver ==
    \E d \in Jobs :
        \/ DriverBegin(d)
        \/ DriverLookupFails(d)
        \/ DriverEnterGrid(d)
        \/ GridEarlyError(d)
        \/ GridStartPoller(d)
        \/ \E ok \in BOOLEAN : GridGenerationReturns(d, ok)
        \/ \E ok \in BOOLEAN : GridFinal(d, ok)
        \/ DriverErrorReply(d)
        \/ DriverDone(d)

Poller ==
    \E d \in Jobs :
        \/ PollerCompletion(d)
        \/ \E k \in Calls : PollerInterrupt(d, k)
        \/ PollerTick(d)
        \/ PollerGiveUp(d)

NextPrimary ==
    \/ AddImagine
    \/ Cancel
    \/ StartPollingStop
    \/ Polling
    \/ Driver
    \/ \E k \in Calls : Interrupt(k)

\* ============================================ secondary pipeline: NAIQueue
\* the kinds of NAIQueueItem: the three the switch of next() names, and another
NAIKnownTypes == { "ItemTypeImage", "ItemTypeVibeTransfer", "ItemTypeImg2Img" }

NAISampleTypes == { "ItemTypeImage", "ItemTypeOther" }

\* Add: "if len(q.queue) == cap(q.queue) { return -1, errors.New(...) }"
NAIAddCheck(t, h) ==
    LET j == Len(item) + 1 IN
    /\ ~crashed /\ pipeline = "secondary"
    /\ item' = Append(item, QueueItem(t, IF h THEN j ELSE NoInteraction))
    /\ drv' = Append(drv, NoDriver)
    /\ add' = Append(add, IF Len(queue) = NAIQueueCap
                             THEN [ pc |-> "returned", pos |-> -1 ]
                             ELSE [ pc |-> "checked", pos |-> 0 ])
    /\ hist' = IF Len(queue) = NAIQueueCap
                  THEN [ hist EXCEPT !.addFull = @ \cup {j} ] ELSE hist
    /\ UNCHANGED << stop, settings, api, parse, dvars, pipeline, queue, sendq, currentImagine, cancelledItems,
                    pollpc, crashed, intr, waiting >>

\* Add: "q.queue <- item"
NAIAddSend(j) ==
    /\ ~crashed /\ pipeline = "secondary"
    /\ add[j].pc = "checked"
    /\ IF Len(queue) < NAIQueueCap
          THEN /\ queue' = Append(queue, j)
               /\ sendq' = sendq
               /\ add' = [ add EXCEPT ![j].pc = "sent" ]
          ELSE /\ sendq' = Append(sendq, j)
               /\ queue' = queue
               /\ add' = [ add EXCEPT ![j].pc = "blocked" ]
    /\ UNCHANGED << stop, settings, api, parse, dvars, pipeline, item, currentImagine, cancelledItems, pollpc,
                    crashed, drv, intr, waiting, hist >>

\* Start, "case <-time.After(1 * time.Second)" with q.current == nil: q.next()
NAIStartTick ==
    /\ ~crashed /\ pipeline = "secondary" /\ pollpc = "select"
    /\ currentImagine = NoJob
    /\ pollpc' = "pull"
    /\ UNCHANGED << stop, settings, api, parse, dvars, pipeline, item, add, queue, sendq, currentImagine,
                    cancelledItems, crashed, drv, intr, waiting, hist >>

\* next: the loop condition, the guard and "q.current = <-q.queue"
NAINext ==
    /\ ~crashed /\ pipeline = "secondary" /\ pollpc = "pull"
    /\ IF Len(queue) = 0 \/ AlreadyProcessing
          THEN /\ pollpc' = "select"
               /\ UNCHANGED << queue, sendq, add, currentImagine, hist >>
          ELSE /\ currentImagine' = Head(queue)
               /\ queue' = AfterReceive(queue, sendq)
               /\ sendq' = IF sendq = << >> THEN sendq ELSE Tail(sendq)
               /\ add' = Unblock(add, sendq)
               /\ hist' = [ hist EXCEPT !.order = Append(@, Head(queue)) ]
               /\ pollpc' = "pulled"
    /\ UNCHANGED << stop, settings, api, parse, dvars, pipeline, item, cancelledItems, crashed, drv, intr,
                    waiting >>

\* requireInteraction: log.Panicf on a nil interaction
requireInteraction ==
    /\ ~crashed /\ pipeline = "secondary" /\ pollpc = "pulled"
    /\ \/ currentImagine = NoJob
       \/ /\ currentImagine # NoJob
          /\ InteractionIsNil(item[currentImagine].DiscordInteraction)
    /\ crashed' = TRUE
    /\ UNCHANGED << stop, settings, api, parse, dvars, pipeline, item, add, queue, sendq, currentImagine,
                    cancelledItems, pollpc, drv, intr, waiting, hist >>

\* "if q.cancelled[...] { delete(q.cancelled, ...); q.done(); return nil }"
NAICancelled ==
    /\ ~crashed /\ pipeline = "secondary" /\ pollpc = "pulled"
    /\ currentImagine # NoJob
    /\ LET c == currentImagine
           h == item[c].DiscordInteraction IN
       /\ ~InteractionIsNil(h)
       /\ IsCancelled(h)
       /\ cancelledItems' = cancelledItems \ {h}
       /\ hist' = [ hist EXCEPT !.skipped = @ \cup {c} ]
    /\ pollpc' = "done"
    /\ waiting' = [ waiting EXCEPT !.ret = "select" ]
    /\ UNCHANGED << stop, settings, api, parse, dvars, pipeline, item, add, queue, sendq, currentImagine,
                    crashed, drv, intr >>

\* "default: q.done(); return handlers.ErrorEdit(q.botSession,
\*  q.current.DiscordInteraction, ...)": q.current is nil after done()
NAIUnknown ==
    /\ ~crashed /\ pipeline = "secondary" /\ pollpc = "pulled"
    /\ currentImagine # NoJob
    /\ LET c == currentImagine
           h == item[c].DiscordInteraction IN
       /\ ~InteractionIsNil(h)
       /\ ~IsCancelled(h)
       /\ item[c].Type \notin NAIKnownTypes
    /\ pollpc' = "done"
    /\ waiting' = [ waiting EXCEPT !.ret = "reply" ]
    /\ UNCHANGED << stop, settings, api, parse, dvars, pipeline, item, add, queue, sendq, currentImagine,
                    cancelledItems, crashed, drv, intr, hist >>

NAIUnknownReply ==
    /\ ~crashed /\ pipeline = "secondary" /\ pollpc = "reply"
    /\ IF currentImagine = NoJob
          THEN crashed' = TRUE /\ hist' = hist /\ pollpc' = pollpc
          ELSE /\ crashed' = crashed
               /\ hist' = [ hist EXCEPT !.replied = @ \cup { currentImagine } ]
               /\ pollpc' = "select"
    /\ UNCHANGED << stop, settings, api, parse, dvars, pipeline, item, add, queue, sendq, currentImagine,
                    cancelledItems, drv, intr, waiting >>

\* "interaction, err := q.processCurrentItem()", called by next() on the
\* polling goroutine: the driver of the secondary backend generates and replies
processCurrentItem ==
    /\ ~crashed /\ pipeline = "secondary" /\ pollpc = "pulled"
    /\ currentImagine # NoJob
    /\ LET c == currentImagine
           h == item[c].DiscordInteraction IN
       /\ ~InteractionIsNil(h)
       /\ ~IsCancelled(h)
       /\ item[c].Type \in NAIKnownTypes
       /\ hist' = [ hist EXCEPT !.backendCalls = @ \cup {c},
                                !.replied = @ \cup {c} ]
    /\ pollpc' = "processing"
    /\ UNCHANGED << stop, settings, api, parse, dvars, pipeline, item, add, queue, sendq, currentImagine,
                    cancelledItems, crashed, drv, intr, waiting >>

\* processCurrentItem ends in q.done() and returns; with an error next()
\* returns, without one its loop goes on
processCurrentItemReturns(ok) ==
    /\ ~crashed /\ pipeline = "secondary" /\ pollpc = "processing"
    /\ pollpc' = "done"
    /\ waiting' = [ waiting EXCEPT !.ret = IF ok THEN "pull" ELSE "select" ]
    /\ UNCHANGED << stop, settings, api, parse, dvars, pipeline, item, add, queue, sendq, currentImagine,
                    cancelledItems, crashed, drv, intr, hist >>

\* done(): "q.mu.Lock(); q.current = nil", and updateWaiting reads
\* "items := len(q.queue)" and makes the channel finished
NAIDone ==
    /\ ~crashed /\ pipeline = "secondary" /\ pollpc = "done"
    /\ done
    /\ waiting' = [ waiting EXCEPT !.active = TRUE, !.left = Len(queue),
                                   !.back = Len(queue) ]
    /\ pollpc' = "waiting"
    /\ UNCHANGED << stop, settings, api, parse, dvars, pipeline, item, add, queue, sendq, cancelledItems,
                    crashed, drv, intr, hist >>

\* updateWaiting, first loop: "go func(item *NAIQueueItem) {...}(<-q.queue)"
updateWaitingTake ==
    /\ ~crashed /\ pipeline = "secondary" /\ pollpc = "waiting"
    /\ waiting.left > 0
    /\ Len(queue) > 0
    /\ waiting' = [ waiting EXCEPT !.left = @ - 1,
                                   !.inflight = @ \cup { Head(queue) } ]
    /\ queue' = AfterReceive(queue, sendq)
    /\ sendq' = IF sendq = << >> THEN sendq ELSE Tail(sendq)
    /\ add' = Unblock(add, sendq)
    /\ UNCHANGED << stop, settings, api, parse, dvars, pipeline, item, currentImagine, cancelledItems, pollpc,
                    crashed, drv, intr, hist >>

\* one of the goroutines: the position edit, then "finished <- item"
updateWaitingFinished(j) ==
    /\ ~crashed /\ pipeline = "secondary"
    /\ j \in waiting.inflight
    /\ waiting' = [ waiting EXCEPT !.inflight = @ \ {j},
                                   !.finished = Append(@, j) ]
    /\ hist' = [ hist EXCEPT !.replied = @ \cup {j} ]
    /\ UNCHANGED << stop, settings, api, parse, dvars, pipeline, item, add, queue, sendq, currentImagine,
                    cancelledItems, pollpc, crashed, drv, intr >>

\* updateWaiting, second loop: "case q.queue <- <-finished:"; when the queue is
\* full the send waits, "case <-time.After(30 * time.Second)" fires and
\* updateWaiting returns
updateWaitingPutBack ==
    /\ ~crashed /\ pipeline = "secondary" /\ pollpc = "waiting"
    /\ waiting.left = 0 /\ waiting.back > 0
    /\ waiting.finished # << >>
    /\ IF Len(queue) < NAIQueueCap
          THEN /\ queue' = Append(queue, Head(waiting.finished))
               /\ waiting' = [ waiting EXCEPT !.finished = Tail(@), !.back = @ - 1 ]
          ELSE /\ queue' = queue
               /\ waiting' = [ waiting EXCEPT !.finished = Tail(@), !.back = 0 ]
    /\ UNCHANGED << stop, settings, api, parse, dvars, pipeline, item, add, sendq, currentImagine, cancelledItems,
                    pollpc, crashed, drv, intr, hist >>

\* updateWaiting returns, "q.mu.Unlock()", and done() returns to next()
updateWaitingReturn ==
    /\ ~crashed /\ pipeline = "secondary" /\ pollpc = "waiting"
    /\ waiting.left = 0 /\ waiting.back = 0
    /\ waiting' = [ waiting EXCEPT !.active = FALSE, !.ret = "select" ]
    /\ pollpc' = waiting.ret
    /\ UNCHANGED << stop, settings, api, parse, dvars, pipeline, item, add, queue, sendq, currentImagine,
                    cancelledItems, crashed, drv, intr, hist >>

\* Remove: "q.mu.Lock(); defer q.mu.Unlock(); q.cancelled[ID] = true"
Remove(h) ==
    /\ ~crashed /\ pipeline = "secondary"
    /\ ~waiting.active
    /\ MarkCancelled(h)
    /\ hist' = [ hist EXCEPT
                   !.cancels = @ + 1,
                   !.cancelQueued = IF IsQueued(h) THEN @ \cup {h} ELSE @ ]
    /\ UNCHANGED << stop, settings, api, parse, dvars, pipeline, item, add, queue, sendq, currentImagine,
                    pollpc, crashed, drv, intr, waiting >>

\* NAIQueue.Interrupt: the same statements as the primary queue's Interrupt
NAIInterrupt(k) ==
    /\ pipeline = "secondary"
    /\ \/ InterruptCheck(k)
       \/ InterruptInspect(k)
       \/ InterruptMake(k)
       \/ InterruptSend(k)

\* ---------------------------------------------------- the secondary queue
\* the calls of Add are made one after the other
NAIAdd ==
    \/ /\ Len(item) < MaxNAIJobs
       /\ \A j \in Jobs : add[j].pc # "checked"
       /\ \/ \E t \in NAISampleTypes : NAIAddCheck(t, TRUE)
          \/ NAIAddCheck("ItemTypeImage", FALSE)
    \/ \E j \in Jobs : NAIAddSend(j)

NAICancel ==
    /\ hist.cancels < MaxCancels
    /\ \E h \in Jobs : item[h].DiscordInteraction # NoInteraction /\ Remove(h)

NAIPolling ==
    \/ NAIStartTick
    \/ NAINext
    \/ requireInteraction
    \/ NAICancelled
    \/ NAIUnknown
    \/ NAIUnknownReply
    \/ processCurrentItem
    \/ \E ok \in BOOLEAN : processCurrentItemReturns(ok)
    \/ NAIDone
    \/ updateWaitingTake
    \/ \E j \in Jobs : updateWaitingFinished(j)
    \/ updateWaitingPutBack
    \/ updateWaitingReturn

\* NAIQueue.Stop, up to its send: "if q.stop == nil { q.stop = make(chan
\* os.Signal) }", then "q.stop <- os.Interrupt" waits for a receiver; a send
\* on a closed channel panics
NAIStopSend(k) ==
    /\ ~crashed /\ pipeline = "secondary"
    /\ stop.pc[k] = "idle"
    /\ IF stop.ch = "closed"
          THEN /\ crashed' = TRUE
               /\ stop' = stop
          ELSE /\ crashed' = crashed
               /\ stop' = [ stop EXCEPT !.ch = "open", !.pc[k] = "sending" ]
    /\ UNCHANGED << settings, api, parse, dvars, pipeline, item, add, queue, sendq,
                    currentImagine, cancelledItems, pollpc, drv, intr, waiting, hist >>

\* NAIQueue.Start, "case <-q.stop: break Polling": the loop, in its select,
\* takes the value of a Stop that is sending
NAIStopReceive(k) ==
    /\ ~crashed /\ pipeline = "secondary"
    /\ pollpc = "select"
    /\ stop.ch = "open" /\ stop.pc[k] = "sending"
    /\ pollpc' = "stopped"
    /\ stop' = [ stop EXCEPT !.pc[k] = "closing" ]
    /\ UNCHANGED << settings, api, parse, dvars, pipeline, item, add, queue, sendq,
                    currentImagine, cancelledItems, crashed, drv, intr, waiting, hist >>

\* NAIQueue.Stop, "close(q.stop)" and return; a Stop still blocked in its
\* send on the channel panics when the channel is closed
NAIStopClose(k) ==
    /\ ~crashed /\ pipeline = "secondary"
    /\ stop.pc[k] = "closing"
    /\ stop' = [ stop EXCEPT !.ch = "closed", !.pc[k] = "returned" ]
    /\ crashed' = \E other \in StopCalls : stop.pc[other] = "sending"
    /\ UNCHANGED << settings, api, parse, dvars, pipeline, item, add, queue, sendq,
                    currentImagine, cancelledItems, pollpc, drv, intr, waiting, hist >>

NAIStop(k) == NAIStopSend(k) \/ NAIStopReceive(k) \/ NAIStopClose(k)

NextSecondary ==
    \/ NAIAdd
    \/ NAICancel
    \/ NAIPolling
    \/ \E k \in Calls : NAIInterrupt(k)

\* ====================================== one job through processImagineGrid
\* a *string: nil, or the address of a string
Nil == << >>

Ptr(str) == << str >>

\* the names of one cached inventory, in the order of the cache
Inventory == << "m1", "m2" >>

\* the model names of the backend's inventory
Models == { Inventory[i] : i \in DOMAIN Inventory }

\* the names a request can carry besides the inventory's own: a blank, the
\* sentinel, two fragments of inventory names and a name of no model
Fragments == { "m", "2", "x" }

\* the characters of each name
Spelling ==
    [ n \in Models \cup Fragments \cup { "", "None" } |->
        CASE n = "m1" -> << "m", "1" >>
          [] n = "m2" -> << "m", "2" >>
          [] n = "m" -> << "m" >>
          [] n = "2" -> << "2" >>
          [] n = "x" -> << "x" >>
          [] n = "None" -> << "N", "o", "n", "e" >>
          [] OTHER -> << >> ]

\* c.GetCache(api) of the three inventories: TRUE where it returns the list
CachesLoaded == [ Checkpoint |-> TRUE, VAE |-> TRUE, Hypernetwork |-> TRUE ]

\* the backend reports a value for each of the three options
LiveValues == { Ptr(m) : m \in Models }

\* a request names a model, leaves the slot nil, or leaves it blank
RequestValues == { Nil, Ptr("") } \cup LiveValues

NoConfig == [ SDModelCheckpoint |-> Nil, SDVae |-> Nil, SDHypernetwork |-> Nil ]

NoRequest == [ Checkpoint |-> Nil, VAE |-> Nil, Hypernetwork |-> Nil ]

IdleGrid ==
    /\ live = NoConfig
    /\ request = NoRequest
    /\ config = NoConfig
    /\ originalConfig = NoConfig
    /\ grid = [ pc |-> "idle", err |-> FALSE, poller |-> "off", generationDone |-> "nil",
             timeout |-> "unarmed" ]
    /\ calls = [ updates |-> 0, trace |-> << >>, given |-> NoRequest, was |-> NoConfig,
                 caches |-> CachesLoaded, posted |-> NoConfig,
                 interrupts |-> 0, interruptErr |-> FALSE, interrupted |-> 0,
                 ticks |-> 0, zeros |-> 0, edits |-> 0, queryFailed |-> FALSE,
                 replies |-> << >> ]

ptrStringCompare_Never(s1, s2) == FALSE

ptrStringCompare(s1, s2) ==
    IF s1 = Nil \/ s2 = Nil THEN s1 = s2 ELSE s1[1] = s2[1]

\* the condition of updateModels: some requested slot differs from config
NeedsSwitch(r, c) ==
    \/ ~ptrStringCompare(r.Checkpoint, c.SDModelCheckpoint)
    \/ ~ptrStringCompare(r.VAE, c.SDVae)
    \/ ~ptrStringCompare(r.Hypernetwork, c.SDHypernetwork)

\* the condition of revertModels: config differs from originalConfig
NeedsRevert(c, o) ==
    \/ ~ptrStringCompare(c.SDModelCheckpoint, o.SDModelCheckpoint)
    \/ ~ptrStringCompare(c.SDVae, o.SDVae)
    \/ ~ptrStringCompare(c.SDHypernetwork, o.SDHypernetwork)

\* fuzzy matching of one name: the positions of s, from i on, that take the
\* characters of p in order, leftmost first; a 0 when a character finds none
RECURSIVE MatchedIndexes(_, _, _)
MatchedIndexes(p, s, i) ==
    IF p = << >> THEN << >>
    ELSE IF i > Len(s) THEN << 0 >>
    ELSE IF s[i] = p[1] THEN << i >> \o MatchedIndexes(Tail(p), s, i + 1)
    ELSE MatchedIndexes(p, s, i + 1)

FuzzyMatches(pattern, name) ==
    LET at == MatchedIndexes(Spelling[pattern], Spelling[name], 1)
    IN  \A k \in DOMAIN at : at[k] # 0

\* the score of a match: the bonus of a match on the first character, the
\* penalty of the characters skipped before the first match (at most three
\* count), the bonus of each adjacent pair, one off per unmatched character
FuzzyScore(pattern, name) ==
    LET at == MatchedIndexes(Spelling[pattern], Spelling[name], 1)
        lead == IF at[1] - 1 > 3 THEN 3 ELSE at[1] - 1
        adjacent == Cardinality({ k \in DOMAIN at : k > 1 /\ at[k] = at[k - 1] + 1 })
    IN  (IF at[1] = 1 THEN 10 ELSE 0) - 5 * lead + 5 * adjacent
          - (Len(Spelling[name]) - Len(at))

\* the stable sort by descending score of the matching entries
RECURSIVE Ranked(_, _)
Ranked(pattern, entries) ==
    IF entries = {} THEN << >>
    ELSE LET top == CHOOSE i \in entries : \A j \in entries :
                        \/ FuzzyScore(pattern, Inventory[i]) > FuzzyScore(pattern, Inventory[j])
                        \/ /\ FuzzyScore(pattern, Inventory[i]) = FuzzyScore(pattern, Inventory[j])
                           /\ i <= j
         IN  << top >> \o Ranked(pattern, entries \ { top })

\* fuzzy.FindFrom(*toLoad, cache): the indexes of the inventory entries the
\* pattern matches, best first
FuzzyFind(pattern) ==
    Ranked(pattern, { i \in DOMAIN Inventory : FuzzyMatches(pattern, Inventory[i]) })

FirstResult_Last(results) == results[Len(results)]

\* results[0] of lookupModel
FirstResult(results) == results[1]

\* lookupModel, one slot: nil and "" post nothing, "None" is kept, any other
\* name is replaced by the first fuzzy result when there is one; when the
\* inventory cannot be read the loop continues and the slot is never assigned
LookupSlot(toLoad, loaded) ==
    IF toLoad = Nil THEN Nil
    ELSE IF toLoad[1] = "" THEN Nil
    ELSE IF toLoad[1] = "None" THEN toLoad
    ELSE IF ~loaded THEN Nil
    ELSE IF Len(FuzzyFind(toLoad[1])) > 0
            THEN Ptr(Inventory[FirstResult(FuzzyFind(toLoad[1]))])
            ELSE toLoad

lookupModel(r, caches) ==
    [ SDModelCheckpoint |-> LookupSlot(r.Checkpoint, caches.Checkpoint),
      SDVae |-> LookupSlot(r.VAE, caches.VAE),
      SDHypernetwork |-> LookupSlot(r.Hypernetwork, caches.Hypernetwork) ]

\* the live configuration after UpdateConfiguration(POST): the options the
\* payload carries are set, the others keep their value
Patched(l, POST) ==
    [ SDModelCheckpoint |-> IF POST.SDModelCheckpoint = Nil
                               THEN l.SDModelCheckpoint ELSE POST.SDModelCheckpoint,
      SDVae |-> IF POST.SDVae = Nil THEN l.SDVae ELSE POST.SDVae,
      SDHypernetwork |-> IF POST.SDHypernetwork = Nil
                            THEN l.SDHypernetwork ELSE POST.SDHypernetwork ]

\* processImagineGrid returns; the deferred close(generationDone) runs
Returned_NoClose(g, failed) == [ g EXCEPT !.pc = "returned", !.err = failed ]

Returned(g, failed) ==
    [ g EXCEPT !.pc = "returned", !.err = failed,
               !.generationDone = IF @ = "nil" THEN @ ELSE "closed" ]

\* switchToModels: "config, err = q.stableDiffusionAPI.GetConfig();
\*  originalConfig = config"
switchToModels(ok) ==
    /\ pipeline = "driver" /\ grid.pc = "start"
    /\ IF ok
          THEN /\ config' = live
               /\ originalConfig' = live
               /\ grid' = [ grid EXCEPT !.pc = "update" ]
          ELSE /\ UNCHANGED << config, originalConfig >>
               /\ grid' = Returned(grid, TRUE)
    /\ UNCHANGED << stop, settings, api, parse, qvars, live, request, calls >>

\* updateModels: nothing to do when the three slots match; otherwise the
\* "Changing models to" edit, whose failure is returned
updateModels(ok) ==
    /\ pipeline = "driver" /\ grid.pc = "update"
    /\ grid' = IF ~NeedsSwitch(request, config) THEN [ grid EXCEPT !.pc = "initial" ]
               ELSE IF ok THEN [ grid EXCEPT !.pc = "patch" ]
               ELSE Returned(grid, TRUE)
    /\ UNCHANGED << stop, settings, api, parse, qvars, live, request, config, originalConfig, calls >>

\* "q.stableDiffusionAPI.UpdateConfiguration(q.lookupModel(request, config, ...))"
UpdateConfiguration(ok) ==
    /\ pipeline = "driver" /\ grid.pc = "patch"
    /\ calls' = [ calls EXCEPT !.updates = @ + 1, !.trace = Append(@, "patch"),
                               !.posted = lookupModel(request, calls.caches) ]
    /\ IF ok
          THEN /\ live' = Patched(live, lookupModel(request, calls.caches))
               /\ grid' = [ grid EXCEPT !.pc = "confirm" ]
          ELSE /\ live' = live
               /\ grid' = Returned(grid, TRUE)
    /\ UNCHANGED << stop, settings, api, parse, qvars, request, config, originalConfig >>

\* the confirming read: "config, err = q.stableDiffusionAPI.GetConfig()" and the
\* three assignments to request
ConfirmingRead(ok) ==
    /\ pipeline = "driver" /\ grid.pc = "confirm"
    /\ calls' = [ calls EXCEPT !.trace = Append(@, "read") ]
    /\ IF ok
          THEN /\ config' = live
               /\ request' = [ Checkpoint |-> live.SDModelCheckpoint,
                               VAE |-> live.SDVae,
                               Hypernetwork |-> live.SDHypernetwork ]
               /\ grid' = [ grid EXCEPT !.pc = "initial" ]
          ELSE /\ UNCHANGED << config, request >>
               /\ grid' = Returned(grid, TRUE)
    /\ UNCHANGED << stop, settings, api, parse, qvars, live, originalConfig >>

\* showInitialMessage and recordToRepository; then "generationDone :=
\* make(chan bool, 1)", "go q.updateProgressBar(...)" and the generation call
\* q.textInference(queue) is issued
\* "timeout := time.NewTimer(5 * time.Minute)" is the first statement of
\* updateProgressBar
showInitialMessage(ok) ==
    /\ pipeline = "driver" /\ grid.pc = "initial"
    /\ IF ok
          THEN /\ grid' = [ grid EXCEPT !.pc = "generating", !.poller = "select",
                                        !.generationDone = "empty",
                                        !.timeout = "armed" ]
               /\ calls' = [ calls EXCEPT !.trace = Append(@, "dispatch") ]
          ELSE /\ grid' = Returned(grid, TRUE)
               /\ calls' = calls
    /\ UNCHANGED << stop, settings, api, parse, qvars, live, request, config, originalConfig >>

\* where processImagineGrid goes on after a generation that returned a response
AfterGeneration_Revert == "revert"

AfterGeneration == "final"

\* "generationDone := make(chan bool, 1)": a send finds room when the channel
\* holds nothing
HasRoom_Unbuffered(ch) == FALSE

HasRoom(ch) == ch = "empty"

\* the generation call returns: "generationDone <- true", then the returns on
\* an error and on a nil response.  The send puts the value into the buffer;
\* with no room it is taken by a poller waiting in its select, else it blocks
textInference(res) ==
    /\ pipeline = "driver" /\ grid.pc = "generating"
    /\ LET after == IF HasRoom(grid.generationDone)
                       THEN [ grid EXCEPT !.generationDone = "sent" ]
                       ELSE [ grid EXCEPT !.poller = "exited" ]
       IN  grid' = IF ~HasRoom(grid.generationDone) /\ grid.poller # "select"
                      THEN [ grid EXCEPT !.pc = "blocked" ]
                      ELSE IF res = "response"
                      THEN [ after EXCEPT !.pc = AfterGeneration ]
                      ELSE Returned(after, TRUE)
    /\ UNCHANGED << stop, settings, api, parse, qvars, live, request, config, originalConfig, calls >>

\* "default: return fmt.Errorf("unknown queue type: %v", queue.Type)"
unknownQueueType ==
    /\ pipeline = "driver" /\ grid.pc = "generating"
    /\ grid' = Returned(grid, TRUE)
    /\ UNCHANGED << stop, settings, api, parse, qvars, live, request, config, originalConfig, calls >>

\* recordSeeds and showFinalMessage; its error is returned
showFinalMessage(ok) ==
    /\ pipeline = "driver" /\ grid.pc = "final"
    /\ IF ok
          THEN /\ grid' = [ grid EXCEPT !.pc = "revert" ]
               /\ calls' = [ calls EXCEPT !.trace = Append(@, "final"),
                                          !.replies = Append(@, "final") ]
          ELSE /\ grid' = Returned(grid, TRUE)
               /\ calls' = calls
    /\ UNCHANGED << stop, settings, api, parse, qvars, live, request, config, originalConfig >>

\* revertModels(config, originalConfig): UpdateConfiguration with the three
\* original values when config differs from originalConfig
revertModels(ok) ==
    /\ pipeline = "driver" /\ grid.pc = "revert"
    /\ IF NeedsRevert(config, originalConfig)
          THEN /\ calls' = [ calls EXCEPT !.updates = @ + 1,
                                          !.trace = Append(@, "revert") ]
               /\ live' = IF ok THEN Patched(live, originalConfig) ELSE live
               /\ grid' = Returned(grid, ~ok)
          ELSE /\ calls' = [ calls EXCEPT !.trace = Append(@, "revert") ]
               /\ live' = live
               /\ grid' = Returned(grid, FALSE)
    /\ UNCHANGED << stop, settings, api, parse, qvars, request, config, originalConfig >>

\* updateProgressBar, "case <-generationDone: return"
updateProgressBarDone ==
    /\ pipeline = "driver" /\ grid.poller = "select"
    /\ grid.generationDone \in { "sent", "closed" }
    /\ grid' = [ grid EXCEPT !.poller = "exited" ]
    /\ UNCHANGED << stop, settings, api, parse, qvars, live, request, config, originalConfig, calls >>

\* the values GetCurrentProgress reports in progress.Progress, in percent
ProgressValues == { 0, 1, 50 }

\* "if progress.Progress == 0 { continue }"
ZeroProgress_Never(p) == FALSE

ZeroProgress(p) == p = 0

\* where updateProgressBar goes after a progress query that returned an error:
\* the error edit and "return"
AfterQueryError_Retry == "select"

AfterQueryError == "exited"

\* updateProgressBar, "case <-time.After(1 * time.Second)" when the progress
\* query fails: handlers.ErrorEdit and return
updateProgressBarQueryError ==
    /\ pipeline = "driver" /\ grid.poller = "select"
    /\ calls.ticks < MaxTicks
    /\ calls' = [ calls EXCEPT !.ticks = @ + 1,
                               !.queryFailed = TRUE,
                               !.replies = Append(@, "error"),
                               !.trace = IF \E i \in 1 .. Len(@) : @[i] = "progress"
                                            THEN @ ELSE Append(@, "progress") ]
    /\ grid' = [ grid EXCEPT !.poller = AfterQueryError ]
    /\ UNCHANGED << stop, settings, api, parse, qvars, live, request, config, originalConfig >>

\* what a pass through "case <-time.After(1 * time.Second)" does to the
\* 5-minute timer: nothing
TimerAfterTick_Rearm(t) == "armed"

TimerAfterTick(t) == t

\* updateProgressBar, the 1-second tick when the query returns progress p:
\* nothing is rendered for zero progress; otherwise the status edit
\* (InteractionResponseEdit), whose failure ends the poller
updateProgressBarTick(p, ok) ==
    /\ pipeline = "driver" /\ grid.poller = "select"
    /\ calls.ticks < MaxTicks
    /\ IF ZeroProgress(p)
          THEN /\ calls' = [ calls EXCEPT !.ticks = @ + 1,
                                !.zeros = IF p = 0 THEN @ + 1 ELSE @,
                                !.trace = IF \E i \in 1 .. Len(@) : @[i] = "progress"
                                             THEN @ ELSE Append(@, "progress") ]
               /\ grid' = [ grid EXCEPT !.timeout = TimerAfterTick(@) ]
          ELSE /\ calls' = [ calls EXCEPT !.ticks = @ + 1,
                                !.zeros = IF p = 0 THEN @ + 1 ELSE @,
                                !.edits = IF ok THEN @ + 1 ELSE @,
                                !.trace = IF \E i \in 1 .. Len(@) : @[i] = "progress"
                                             THEN @ ELSE Append(@, "progress") ]
               /\ grid' = [ grid EXCEPT !.poller = IF ok THEN "select" ELSE "exited",
                                        !.timeout = TimerAfterTick(@) ]
    /\ UNCHANGED << stop, settings, api, parse, qvars, live, request, config, originalConfig >>

\* five minutes have passed since time.NewTimer: the timer sends on timeout.C.
\* Nothing reads timeout.C once the poller has left its loop
TimerFires ==
    /\ pipeline = "driver" /\ grid.poller = "select"
    /\ grid.timeout = "armed"
    /\ grid' = [ grid EXCEPT !.timeout = "fired" ]
    /\ UNCHANGED << stop, settings, api, parse, qvars, live, request, config, originalConfig, calls >>

\* updateProgressBar, "case <-timeout.C": the "Timeout reached" error edit and
\* return
updateProgressBarTimeout ==
    /\ pipeline = "driver" /\ grid.poller = "select"
    /\ grid.timeout = "fired"
    /\ calls' = [ calls EXCEPT !.replies = Append(@, "error") ]
    /\ grid' = [ grid EXCEPT !.poller = "exited" ]
    /\ UNCHANGED << stop, settings, api, parse, qvars, live, request, config, originalConfig >>

\* where updateProgressBar goes after handling an interrupt: "return" on
\* every path
AfterInterrupt_Continue == "select"

AfterInterrupt == "exited"

\* updateProgressBar, "case _, ok := <-item.Interrupt": the backend's Interrupt
\* call, the error edit when it fails, else the "Generation Interrupted" edit
updateProgressBarStop(ok) ==
    /\ pipeline = "driver" /\ grid.poller = "select"
    /\ calls.interrupts < MaxInterrupts
    /\ calls' = [ calls EXCEPT !.interrupts = @ + 1,
                               !.interruptErr = ~ok,
                               !.interrupted = IF ok THEN @ + 1 ELSE @,
                               !.replies = IF ok THEN @ ELSE Append(@, "error") ]
    /\ grid' = [ grid EXCEPT !.poller = AfterInterrupt ]
    /\ UNCHANGED << stop, settings, api, parse, qvars, live, request, config, originalConfig >>

InitDriver ==
    /\ pipeline = "driver"
    /\ InitQueue
    /\ IdleParse /\ IdleApi /\ IdleSettings /\ IdleStop
    /\ live \in [ { "SDModelCheckpoint", "SDVae", "SDHypernetwork" } -> LiveValues ]
    /\ request \in [ { "Checkpoint", "VAE", "Hypernetwork" } -> RequestValues ]
    /\ config = NoConfig
    /\ originalConfig = NoConfig
    /\ grid = [ pc |-> "start", err |-> FALSE, poller |-> "off", generationDone |-> "nil",
             timeout |-> "unarmed" ]
    /\ calls = [ updates |-> 0, trace |-> << >>, given |-> request, was |-> live,
                 caches |-> CachesLoaded, \* the inventories are cached
                 posted |-> NoConfig,     \* the payload of the last patch
                 interrupts |-> 0,        \* calls of the backend's Interrupt by the poller
                 interruptErr |-> FALSE,  \* such a call returned an error
                 interrupted |-> 0,       \* "Generation Interrupted" edits issued
                 ticks |-> 0,             \* progress queries made by the poller
                 zeros |-> 0,             \* of these, the ones that returned progress 0
                 edits |-> 0,             \* status edits rendered by the poller
                 queryFailed |-> FALSE,   \* a progress query returned an error
                 replies |-> << >> ]      \* the error edits and the final reply, in order

\* the patch step alone, over every kind of requested name and with
\* inventories that can or cannot be read: the job is at the call of
\* UpdateConfiguration, after switchToModels and the condition of updateModels
LookupValues == RequestValues \cup { Ptr("None") } \cup { Ptr(f) : f \in Fragments }

InitLookup ==
    /\ pipeline = "driver"
    /\ InitQueue
    /\ IdleParse /\ IdleApi /\ IdleSettings /\ IdleStop
    /\ live \in [ { "SDModelCheckpoint", "SDVae", "SDHypernetwork" } -> LiveValues ]
    /\ request \in [ { "Checkpoint", "VAE", "Hypernetwork" } -> LookupValues ]
    /\ NeedsSwitch(request, live)
    /\ config = live
    /\ originalConfig = live
    /\ grid = [ pc |-> "patch", err |-> FALSE, poller |-> "off", generationDone |-> "nil",
             timeout |-> "unarmed" ]
    /\ \E caches \in [ { "Checkpoint", "VAE", "Hypernetwork" } -> BOOLEAN ] :
          calls = [ updates |-> 0, trace |-> << >>, given |-> request, was |-> live,
                    caches |-> caches, posted |-> NoConfig,
                    interrupts |-> 0, interruptErr |-> FALSE, interrupted |-> 0,
                    ticks |-> 0, zeros |-> 0, edits |-> 0, queryFailed |-> FALSE,
                    replies |-> << >> ]

NextLookup == \E ok \in BOOLEAN : UpdateConfiguration(ok)

SpecLookup == InitLookup /\ [][NextLookup]_vars

NextDriver ==
    \/ \E ok \in BOOLEAN : switchToModels(ok)
    \/ \E ok \in BOOLEAN : updateModels(ok)
    \/ \E ok \in BOOLEAN : UpdateConfiguration(ok)
    \/ \E ok \in BOOLEAN : ConfirmingRead(ok)
    \/ \E ok \in BOOLEAN : showInitialMessage(ok)
    \/ \E res \in { "response", "error", "nil" } : textInference(res)
    \/ unknownQueueType
    \/ \E ok \in BOOLEAN : showFinalMessage(ok)
    \/ \E ok \in BOOLEAN : revertModels(ok)
    \/ updateProgressBarDone
    \/ updateProgressBarQueryError
    \/ \E p \in ProgressValues, ok \in BOOLEAN : updateProgressBarTick(p, ok)
    \/ TimerFires
    \/ updateProgressBarTimeout
    \/ \E ok \in BOOLEAN : updateProgressBarStop(ok)

SpecDriver == InitDriver /\ [][NextDriver]_vars

\* the poller's goroutine keeps running: its select takes "case <-generationDone"
\* once a value was sent on the channel or the channel is closed
FairSpecDriver == SpecDriver /\ WF_vars(updateProgressBarDone)

\* ==================================== deriving parameters from the prompt
\* A Go string is a sequence of one-character strings here; the rune U+2014 is
\* the element "EMDASH".
DigitChars == << "0", "1", "2", "3", "4", "5", "6", "7", "8", "9" >>

IsDigit(c) == \E n \in 1 .. 10 : DigitChars[n] = c

DigitVal(c) == (CHOOSE n \in 1 .. 10 : DigitChars[n] = c) - 1

Letters ==
    { "a", "b", "c", "d", "e", "f", "g", "h", "i", "j", "k", "l", "m", "n", "o", "p", "q", "r", "s", "t", "u", "v", "w", "x", "y", "z",
      "A", "B", "C", "D", "E", "F", "G", "H", "I", "J", "K", "L", "M", "N", "O", "P", "Q", "R", "S", "T", "U", "V", "W", "X", "Y", "Z" }

\* the regexp classes \w and \s, and the class [\w.\/\\] of keyValue
IsWord(c) == IsDigit(c) \/ c \in Letters \/ c = "_"

IsSpace(c) == c \in { " ", "\t", "\n", "\r" }

IsValueChar(c) == IsWord(c) \/ c \in { ".", "/", "\\" }

\* \B before s[i]: the characters on both sides are of the same kind
NonWordBoundary(s, i) ==
    (i > 1 /\ IsWord(s[i - 1])) = (i <= Len(s) /\ IsWord(s[i]))

\* (?:--|EMDASH)+ from position i, greedy: the position after the run
RECURSIVE DashRun(_, _)
DashRun(s, i) ==
    IF i + 1 <= Len(s) /\ s[i] = "-" /\ s[i + 1] = "-" THEN DashRun(s, i + 2)
    ELSE IF i <= Len(s) /\ s[i] = "EMDASH" THEN DashRun(s, i + 1)
    ELSE i

\* \w+, [\w.\/\\]+ and \d+ from position i, greedy: the position after the run
RECURSIVE WordRun(_, _)
WordRun(s, i) == IF i <= Len(s) /\ IsWord(s[i]) THEN WordRun(s, i + 1) ELSE i

RECURSIVE ValueRun(_, _)
ValueRun(s, i) == IF i <= Len(s) /\ IsValueChar(s[i]) THEN ValueRun(s, i + 1) ELSE i

RECURSIVE DigitRun(_, _)
DigitRun(s, i) == IF i <= Len(s) /\ IsDigit(s[i]) THEN DigitRun(s, i + 1) ELSE i

\* var keyValue = regexp.MustCompile(`\B(?:--|EMDASH)+(\w+)(?: ([\w.\/\\]+))?`)
\* matched at position i: the key, the value ("" without the optional group) and
\* the position after the match
keyValue(s, i) ==
    LET d == DashRun(s, i)
        w == WordRun(s, d)
        v == IF w <= Len(s) /\ s[w] = " " THEN ValueRun(s, w + 1) ELSE w
        grouped == v > w + 1
    IN  [ ok |-> NonWordBoundary(s, i) /\ d > i /\ w > d,
          key |-> SubSeq(s, d, w - 1),
          value |-> IF grouped THEN SubSeq(s, w + 1, v - 1) ELSE << >>,
          end |-> IF grouped THEN v ELSE w ]

\* keyValue.FindAllStringSubmatch(prompt, -1): the matches from left to right
RECURSIVE FindAllStringSubmatch(_, _)
FindAllStringSubmatch(s, i) ==
    IF i > Len(s) THEN << >>
    ELSE IF keyValue(s, i).ok
            THEN << keyValue(s, i) >> \o FindAllStringSubmatch(s, keyValue(s, i).end)
            ELSE FindAllStringSubmatch(s, i + 1)

\* keyValue.ReplaceAllString(prompt, ""): the text outside the matches
RECURSIVE ReplaceAllString(_, _)
ReplaceAllString(s, i) ==
    IF i > Len(s) THEN << >>
    ELSE IF keyValue(s, i).ok
            THEN ReplaceAllString(s, keyValue(s, i).end)
            ELSE << s[i] >> \o ReplaceAllString(s, i + 1)

\* strings.TrimSpace
RECURSIVE TrimSpace(_)
TrimSpace(s) ==
    IF s = << >> THEN s
    ELSE IF IsSpace(s[1]) THEN TrimSpace(Tail(s))
    ELSE IF IsSpace(s[Len(s)]) THEN TrimSpace(SubSeq(s, 1, Len(s) - 1))
    ELSE s

\* extractKeyValuePairsFromPrompt: the map (a later match of a key replaces an
\* earlier one) and the sanitized prompt
extractKeyValuePairsFromPrompt(prompt) ==
    LET matches == FindAllStringSubmatch(prompt, 1)
        keys == { matches[n].key : n \in 1 .. Len(matches) }
        last(k) == CHOOSE n \in 1 .. Len(matches) :
                      /\ matches[n].key = k
                      /\ \A o \in 1 .. Len(matches) : matches[o].key = k => o <= n
    IN  [ parameters |-> [ k \in keys |-> matches[last(k)].value ],
          sanitized |-> TrimSpace(ReplaceAllString(prompt, 1)) ]

\* strings.Split(s, sep) for a one-character separator
RECURSIVE Split(_, _, _)
Split(s, sep, i) ==
    IF \E n \in i .. Len(s) : s[n] = sep
       THEN LET n == CHOOSE n \in i .. Len(s) :
                        s[n] = sep /\ \A o \in i .. n - 1 : s[o] # sep
            IN  << SubSeq(s, i, n - 1) >> \o Split(s, sep, n + 1)
       ELSE << SubSeq(s, i, Len(s)) >>

\* the value of a string of decimal digits
RECURSIVE DecimalValue(_)
DecimalValue(s) ==
    IF s = << >> THEN 0
    ELSE DecimalValue(SubSeq(s, 1, Len(s) - 1)) * 10 + DigitVal(s[Len(s)])

\* strconv.Atoi on strings short enough for the value to fit an int: an
\* optional sign and at least one digit, nothing else
Atoi(s) ==
    LET signed == s # << >> /\ s[1] \in { "+", "-" }
        digits == IF signed THEN Tail(s) ELSE s
        valid == digits # << >> /\ \A n \in 1 .. Len(digits) : IsDigit(digits[n])
    IN  [ err |-> ~valid,
          val |-> IF ~valid THEN 0
                  ELSE IF signed /\ s[1] = "-" THEN 0 - DecimalValue(digits)
                  ELSE DecimalValue(digits) ]

\* "(int(x) + 7) & (-8)"
RoundUp8_Truncate(x) == x

RoundUp8(x) == ((x + 7) \div 8) * 8

\* int(float64(base) * (float64(num) / float64(den))): the integer part of the
\* exact product, except that when the exact product is an integer and the
\* quotient num/den is not, the float64 product may fall just below it and the
\* conversion then yields one less (below says which of the two happens)
FloatProduct(base, num, den, below) ==
    LET exact == (base * num) \div den
    IN  IF below /\ (base * num) % den = 0 /\ num % den # 0 THEN exact - 1 ELSE exact

\* aspectRatioCalculation(aspectRatio, w, h): << width, height >>
aspectRatioCalculation(aspectRatio, w, h, below) ==
    LET aspectRatioSplit == Split(aspectRatio, ":", 1)
        widthRatio == Atoi(aspectRatioSplit[1])
        heightRatio == Atoi(aspectRatioSplit[2])
    IN  IF Len(aspectRatioSplit) # 2 THEN << w, h >>
        ELSE IF widthRatio.err \/ heightRatio.err THEN << w, h >>
        ELSE IF widthRatio.val > heightRatio.val
                THEN << RoundUp8(FloatProduct(h, widthRatio.val, heightRatio.val, below)), h >>
        ELSE IF heightRatio.val > widthRatio.val
                THEN << w, RoundUp8(FloatProduct(w, heightRatio.val, widthRatio.val, below)) >>
        ELSE << w, h >>

\* ---------------------------------------------------------------- numbers
\* An int64 is a sign and a magnitude written in decimal digits without leading
\* zeros, so that values up to math.MaxInt64 are exact.
RECURSIVE StripZeros(_)
StripZeros(d) == IF Len(d) > 1 /\ d[1] = "0" THEN StripZeros(Tail(d)) ELSE d

MagLess(a, b) ==
    \/ Len(a) < Len(b)
    \/ /\ Len(a) = Len(b)
       /\ \E n \in 1 .. Len(a) :
             /\ DigitVal(a[n]) < DigitVal(b[n])
             /\ \A o \in 1 .. n - 1 : a[o] = b[o]

Int64(neg, mag) == [ neg |-> neg /\ mag # << "0" >>, mag |-> mag ]

Int64Less(a, b) ==
    IF a.neg /\ ~b.neg THEN TRUE
    ELSE IF ~a.neg /\ b.neg THEN FALSE
    ELSE IF a.neg THEN MagLess(b.mag, a.mag)
    ELSE MagLess(a.mag, b.mag)

\* the builtin min on int64
Int64Min(a, b) == IF Int64Less(b, a) THEN b ELSE a

MaxInt64 == Int64(FALSE, << "9", "2", "2", "3", "3", "7", "2", "0", "3", "6", "8", "5", "4", "7", "7", "5", "8", "0", "7" >>)

MinInt64Magnitude == << "9", "2", "2", "3", "3", "7", "2", "0", "3", "6", "8", "5", "4", "7", "7", "5", "8", "0", "8" >>

\* strconv.ParseInt(s, 10, 64): a range error above math.MaxInt64 and below
\* math.MinInt64, a syntax error without digits
ParseInt(s) ==
    LET signed == s # << >> /\ s[1] \in { "+", "-" }
        digits == IF signed THEN Tail(s) ELSE s
        valid == digits # << >> /\ \A n \in 1 .. Len(digits) : IsDigit(digits[n])
        neg == signed /\ s[1] = "-"
        mag == StripZeros(digits)
        fits == IF neg THEN ~MagLess(MinInt64Magnitude, mag) ELSE ~MagLess(MaxInt64.mag, mag)
    IN  [ err |-> ~valid \/ ~fits,
          val |-> IF valid /\ fits THEN Int64(neg, mag) ELSE Int64(FALSE, << "0" >>) ]

\* A float64 is counted in hundredths. strconv.ParseFloat(s, 64) on plain
\* decimals with at most two digits after the point; the other strings the
\* inputs hold are not numbers
ParseFloat(s) ==
    LET parts == Split(s, ".", 1)
        whole == parts[1]
        fraction == IF Len(parts) = 2 THEN parts[2] ELSE << >>
        digits == whole \o fraction
        valid == /\ Len(parts) <= 2
                 /\ Len(fraction) <= 2
                 /\ digits # << >>
                 /\ \A n \in 1 .. Len(digits) : IsDigit(digits[n])
        padded == IF Len(fraction) = 0 THEN 0
                  ELSE IF Len(fraction) = 1 THEN DecimalValue(fraction) * 10
                  ELSE DecimalValue(fraction)
    IN  [ err |-> ~valid,
          val |-> IF valid THEN DecimalValue(whole) * 100 + padded ELSE 0 ]

\* between(value, minimum, maximum): min(max(minimum, value), maximum)
between(value, minimum, maximum) ==
    LET raised == IF value < minimum THEN minimum ELSE value
    IN  IF raised > maximum THEN maximum ELSE raised

\* int(float64(n) * scale) for a scale in hundredths
Scaled(n, scale) == (n * scale) \div 100

\* ------------------------------------------- the single-directive extractors
HasPrefixAt(s, i, lit) ==
    /\ i + Len(lit) - 1 <= Len(s)
    /\ SubSeq(s, i, i + Len(lit) - 1) = lit

\* the capture groups: (\d+), and (\d\d?\.?\d?); the position after the capture
\* that starts at j, or j when there is none
CaptureEnd(kind, s, j) ==
    IF kind = "digits" THEN DigitRun(s, j)
    ELSE IF ~(j <= Len(s) /\ IsDigit(s[j])) THEN j
    ELSE LET a == IF j + 1 <= Len(s) /\ IsDigit(s[j + 1]) THEN j + 2 ELSE j + 1
             b == IF a <= Len(s) /\ s[a] = "." THEN a + 1 ELSE a
         IN  IF b <= Len(s) /\ IsDigit(s[b]) THEN b + 1 ELSE b

\* `\s?<lit>(<capture>)\s?` matched at position i
Directive(kind, lit, s, i) ==
    LET from == IF IsSpace(s[i]) /\ HasPrefixAt(s, i + 1, lit) THEN i + 1 ELSE i
        j == from + Len(lit)
        e == CaptureEnd(kind, s, j)
    IN  [ ok |-> HasPrefixAt(s, from, lit) /\ e > j,
          capture |-> SubSeq(s, j, e - 1),
          end |-> IF e <= Len(s) /\ IsSpace(s[e]) THEN e + 1 ELSE e ]

\* FindStringSubmatch: the leftmost match, or none
FindStringSubmatch(kind, lit, s) ==
    LET starts == { i \in 1 .. Len(s) : Directive(kind, lit, s, i).ok }
    IN  IF starts = {} THEN [ ok |-> FALSE, capture |-> << >> ]
        ELSE LET i == CHOOSE i \in starts : \A o \in starts : i <= o
             IN  [ ok |-> TRUE, capture |-> Directive(kind, lit, s, i).capture ]

\* ReplaceAllString(prompt, "") of the same expression
RECURSIVE RemoveDirectives(_, _, _, _)
RemoveDirectives(kind, lit, s, i) ==
    IF i > Len(s) THEN << >>
    ELSE IF Directive(kind, lit, s, i).ok
            THEN RemoveDirectives(kind, lit, s, Directive(kind, lit, s, i).end)
            ELSE << s[i] >> \o RemoveDirectives(kind, lit, s, i + 1)

\* extractSeedFromPrompt(prompt, defaultSeed)
extractSeedFromPrompt(prompt, defaultSeed) ==
    LET seedMatches == FindStringSubmatch("digits", << "-", "-", "s", "e", "e", "d", " " >>, prompt)
        s == ParseInt(seedMatches.capture)
    IN  IF seedMatches.ok
           THEN IF s.err
                   THEN [ err |-> TRUE, SanitizedPrompt |-> << >>, Seed |-> Int64(FALSE, << "0" >>) ]
                   ELSE [ err |-> FALSE,
                          SanitizedPrompt |-> RemoveDirectives("digits", << "-", "-", "s", "e", "e", "d", " " >>, prompt, 1),
                          Seed |-> Int64Min(MaxInt64, s.val) ]
           ELSE [ err |-> FALSE,
                  SanitizedPrompt |-> prompt,
                  Seed |-> IF defaultSeed = Int64(FALSE, << "0" >>)
                              THEN Int64(TRUE, << "1" >>)
                              ELSE Int64Min(MaxInt64, defaultSeed) ]

\* extractCFGScaleFromPrompt and extractZoomScaleFromPrompt: the same function
\* but for the directive and the upper end of the range (30.0 and 4.0)
extractScaleFromPrompt(lit, upper, prompt, defaultScale) ==
    LET matches == FindStringSubmatch("decimal", lit, prompt)
        c == ParseFloat(matches.capture)
    IN  IF matches.ok
           THEN IF c.err
                   THEN [ err |-> TRUE, SanitizedPrompt |-> << >>, Scale |-> 0 ]
                   ELSE [ err |-> FALSE,
                          SanitizedPrompt |-> RemoveDirectives("decimal", lit, prompt, 1),
                          Scale |-> IF c.val < 100 \/ c.val > upper
                                       THEN defaultScale ELSE c.val ]
           ELSE [ err |-> FALSE, SanitizedPrompt |-> prompt, Scale |-> defaultScale ]

extractCFGScaleFromPrompt(prompt, defaultScale) ==
    extractScaleFromPrompt(<< "-", "-", "c", "f", "g", "s", "c", "a", "l", "e", " " >>, 3000, prompt, defaultScale)

extractZoomScaleFromPrompt(prompt, defaultZoomScale) ==
    extractScaleFromPrompt(<< "-", "-", "z", "o", "o", "m", " " >>, 400, prompt, defaultZoomScale)

\* ----------------------------- processCurrentImagine: parameter derivation
\* the prompts, the AspectRatio options and the defaults a derivation starts from
Prompts ==
    { << "a", " ", "c", "a", "t", " ", "-", "-", "a", "r", " ", "1", "6", ":", "9", " ", "-", "-", "s", "t", "e", "p", " ", "3", "0", " ", "-", "-", "s", "e", "e", "d", " ", "4", "2", " ", "e", "x", "t", "r", "a" >>,
      << "a", " ", "c", "a", "t" >>,
      << "a", " ", "c", "a", "t", " ", "-", "-", "s", "e", "e", "d", " ", "9", "2", "2", "3", "3", "7", "2", "0", "3", "6", "8", "5", "4", "7", "7", "5", "8", "0", "7" >>,
      << "a", " ", "c", "a", "t", " ", "-", "-", "s", "e", "e", "d", " ", "9", "2", "2", "3", "3", "7", "2", "0", "3", "6", "8", "5", "4", "7", "7", "5", "8", "0", "8" >>,
      << "a", " ", "c", "a", "t", " ", "-", "-", "z", "o", "o", "m", " ", "5", " ", "-", "-", "c", "f", "g", "s", "c", "a", "l", "e", " ", "5", "0" >>,
      << "a", " ", "c", "a", "t", " ", "-", "-", "z", "o", "o", "m", " ", "1", ".", "5", " ", "-", "-", "c", "f", "g", "s", "c", "a", "l", "e", " ", "7", ".", "5" >>,
      << "a", " ", "c", "a", "t", " ", "-", "-", "z", "o", "o", "m", " ", "0", ".", "5", " ", "-", "-", "c", "f", "g", "s", "c", "a", "l", "e", " ", "0", ".", "5" >>,
      << "a", " ", "c", "a", "t", " ", "-", "-", "z", "o", "o", "m", " ", "3", ".", "9", "9", " ", "-", "-", "c", "f", "g", "s", "c", "a", "l", "e", " ", "3", "1" >>,
      << "a", " ", "c", "a", "t", " ", "-", "-", "z", "o", "o", "m", " ", "a", "b", "c", " ", "-", "-", "c", "f", "g", "s", "c", "a", "l", "e", " ", "-", "-", "s", "t", "e", "p", " ", "x" >>,
      << "a", " ", "c", "a", "t", " ", "-", "-", "z", "o", "o", "m", " ", "3", " ", "-", "-", "c", "f", "g", "s", "c", "a", "l", "e", " ", "3", "0" >>,
      << "a", " ", "c", "a", "t", " ", "-", "-", "z", "o", "o", "m", " ", "1", "0", "0", " ", "-", "-", "c", "f", "g", "s", "c", "a", "l", "e", " ", "1", "0", "0" >>,
      << "-", "-", "s", "e", "e", "d", " ", "7", " ", "a", " ", "c", "a", "t", " ", "EMDASH", "s", "t", "e", "p", " ", "5" >> }

AspectRatios ==
    { << >>,
      << "1", ":", "1" >>,
      << "1", "6", ":", "9" >>,
      << "9", ":", "1", "6" >>,
      << "3", ":", "2" >>,
      << "2", ":", "3" >>,
      << "1", "3", ":", "3" >>,
      << "1", "6" >>,
      << "a", ":", "b" >> }

BaseWidths == { 512, 1024 }

BaseHeights == { 512, 111 }

DefaultSeeds ==
    { Int64(TRUE, << "5" >>), Int64(TRUE, << "1" >>), Int64(FALSE, << "0" >>),
      Int64(FALSE, << "4", "2" >>), MaxInt64 }

NoGeneration ==
    [ Prompt |-> << >>, Width |-> 0, Height |-> 0, EnableHr |-> FALSE, HrScale |-> 0,
      HrResizeX |-> 0, HrResizeY |-> 0, Seed |-> Int64(FALSE, << "0" >>),
      CFGScale |-> 0, Steps |-> 0 ]

NoResult == [ of |-> "none" ]

\* the queue item c and the bot's default settings; CfgScale 7.0, Steps 20 and
\* HrScale 1.5 stand for the item's other fields
StartParse(prompt, ar, w, h, seed, hires) ==
    [ pc |-> "start",
      c |-> [ Prompt |-> prompt, AspectRatio |-> ar, Seed |-> seed, CfgScale |-> 700,
              Steps |-> 20, UseHiresFix |-> hires, HiresUpscaleRate |-> 150 ],
      defaultWidth |-> w,
      defaultHeight |-> h,
      parameters |-> << >>,
      newGeneration |-> NoGeneration,
      result |-> NoResult ]

HasKey(name) == name \in DOMAIN parse.parameters

\* "newGeneration, err := &entities.ImageGenerationRequest{...}" and the
\* default width and height
NewGeneration ==
    /\ pipeline = "parse" /\ parse.pc = "start"
    /\ parse' = [ parse EXCEPT
          !.pc = "created",
          !.newGeneration =
              [ Prompt |-> parse.c.Prompt,
                Width |-> parse.defaultWidth,
                Height |-> parse.defaultHeight,
                EnableHr |-> parse.c.UseHiresFix,
                HrScale |-> between(parse.c.HiresUpscaleRate, 100, 200),
                HrResizeX |-> initializedWidth,
                HrResizeY |-> initializedHeight,
                Seed |-> parse.c.Seed,
                CFGScale |-> parse.c.CfgScale,
                Steps |-> parse.c.Steps ] ]
    /\ UNCHANGED << qvars, dvars, api, settings, stop >>

\* "parameters, newGeneration.Prompt = extractKeyValuePairsFromPrompt(...)"
DeriveKeyValuePairs ==
    /\ pipeline = "parse" /\ parse.pc = "created"
    /\ LET r == extractKeyValuePairsFromPrompt(parse.newGeneration.Prompt)
       IN  parse' = [ parse EXCEPT !.pc = "ar",
                                   !.parameters = r.parameters,
                                   !.newGeneration.Prompt = r.sanitized ]
    /\ UNCHANGED << qvars, dvars, api, settings, stop >>

\* the AspectRatio option unless it is "" or "1:1", else the "ar" parameter
DeriveAspectRatio(below) ==
    /\ pipeline = "parse" /\ parse.pc = "ar"
    /\ LET defaultWidth == parse.newGeneration.Width
           defaultHeight == parse.newGeneration.Height
           wh == IF parse.c.AspectRatio # << >> /\ parse.c.AspectRatio # << "1", ":", "1" >>
                    THEN aspectRatioCalculation(parse.c.AspectRatio, defaultWidth,
                                                defaultHeight, below)
                 ELSE IF HasKey(<< "a", "r" >>)
                    THEN aspectRatioCalculation(parse.parameters[<< "a", "r" >>], defaultWidth,
                                                defaultHeight, below)
                 ELSE << defaultWidth, defaultHeight >>
       IN  parse' = [ parse EXCEPT !.pc = "zoom",
                                   !.newGeneration.Width = wh[1],
                                   !.newGeneration.Height = wh[2] ]
    /\ UNCHANGED << qvars, dvars, api, settings, stop >>

\* the hi-res sizes, then the "zoom" parameter:
\* "newGeneration.HrScale = between(zoomScale, 1.0, 2.0)"
DeriveZoom ==
    /\ pipeline = "parse" /\ parse.pc = "zoom"
    /\ LET g == parse.newGeneration
           keep == g.EnableHr /\ g.HrScale > 100
           zoomScale == ParseFloat(parse.parameters[<< "z", "o", "o", "m" >>])
           zoomed == HasKey(<< "z", "o", "o", "m" >>) /\ ~zoomScale.err
           scale == IF zoomed THEN between(zoomScale.val, 100, 200) ELSE g.HrScale
           resize == zoomed \/ keep
       IN  parse' = [ parse EXCEPT
              !.pc = "step",
              !.newGeneration.EnableHr = zoomed \/ keep,
              !.newGeneration.HrScale = scale,
              !.newGeneration.HrResizeX = IF resize THEN Scaled(g.Width, scale) ELSE g.Width,
              !.newGeneration.HrResizeY = IF resize THEN Scaled(g.Height, scale) ELSE g.Height ]
    /\ UNCHANGED << qvars, dvars, api, settings, stop >>

\* the "step" parameter: strconv.Atoi
DeriveStep ==
    /\ pipeline = "parse" /\ parse.pc = "step"
    /\ parse' = [ parse EXCEPT
          !.pc = "cfgscale",
          !.newGeneration.Steps =
              IF HasKey(<< "s", "t", "e", "p" >>) /\ ~Atoi(parse.parameters[<< "s", "t", "e", "p" >>]).err
                 THEN Atoi(parse.parameters[<< "s", "t", "e", "p" >>]).val ELSE @ ]
    /\ UNCHANGED << qvars, dvars, api, settings, stop >>

\* the "cfgscale" parameter: "newGeneration.CFGScale = cfgScaleFloat"
DeriveCfgScale ==
    /\ pipeline = "parse" /\ parse.pc = "cfgscale"
    /\ parse' = [ parse EXCEPT
          !.pc = "seed",
          !.newGeneration.CFGScale =
              IF HasKey(<< "c", "f", "g", "s", "c", "a", "l", "e" >>) /\ ~ParseFloat(parse.parameters[<< "c", "f", "g", "s", "c", "a", "l", "e" >>]).err
                 THEN ParseFloat(parse.parameters[<< "c", "f", "g", "s", "c", "a", "l", "e" >>]).val ELSE @ ]
    /\ UNCHANGED << qvars, dvars, api, settings, stop >>

\* the "seed" parameter: strconv.ParseInt(seed, 10, 64)
DeriveSeed ==
    /\ pipeline = "parse" /\ parse.pc = "seed"
    /\ parse' = [ parse EXCEPT
          !.pc = "derived",
          !.newGeneration.Seed =
              IF HasKey(<< "s", "e", "e", "d" >>) /\ ~ParseInt(parse.parameters[<< "s", "e", "e", "d" >>]).err
                 THEN ParseInt(parse.parameters[<< "s", "e", "e", "d" >>]).val ELSE @ ]
    /\ UNCHANGED << qvars, dvars, api, settings, stop >>

\* the single-directive extractors applied to the item's prompt and defaults
ExtractSeed ==
    /\ pipeline = "parse" /\ parse.pc = "start"
    /\ parse' = [ parse EXCEPT
          !.pc = "extracted",
          !.result = [ of |-> "seed",
                       value |-> extractSeedFromPrompt(parse.c.Prompt, parse.c.Seed) ] ]
    /\ UNCHANGED << qvars, dvars, api, settings, stop >>

ExtractCFGScale ==
    /\ pipeline = "parse" /\ parse.pc = "start"
    /\ parse' = [ parse EXCEPT
          !.pc = "extracted",
          !.result = [ of |-> "cfgscale",
                       value |-> extractCFGScaleFromPrompt(parse.c.Prompt, parse.c.CfgScale) ] ]
    /\ UNCHANGED << qvars, dvars, api, settings, stop >>

ExtractZoomScale ==
    /\ pipeline = "parse" /\ parse.pc = "start"
    /\ parse' = [ parse EXCEPT
          !.pc = "extracted",
          !.result = [ of |-> "zoom",
                       value |-> extractZoomScaleFromPrompt(parse.c.Prompt,
                                                            parse.c.HiresUpscaleRate) ] ]
    /\ UNCHANGED << qvars, dvars, api, settings, stop >>

InitParse ==
    /\ pipeline = "parse"
    /\ InitQueue
    /\ IdleGrid
    /\ IdleApi /\ IdleSettings /\ IdleStop
    /\ \E prompt \in Prompts, ar \in AspectRatios, w \in BaseWidths, h \in BaseHeights,
          seed \in DefaultSeeds, hires \in BOOLEAN :
          parse = StartParse(prompt, ar, w, h, seed, hires)

NextParse ==
    \/ NewGeneration
    \/ DeriveKeyValuePairs
    \/ \E below \in BOOLEAN : DeriveAspectRatio(below)
    \/ DeriveZoom
    \/ DeriveStep
    \/ DeriveCfgScale
    \/ DeriveSeed
    \/ ExtractSeed
    \/ ExtractCFGScale
    \/ ExtractZoomScale

SpecParse == InitParse /\ [][NextParse]_vars

\* ================================================= the bot's default settings
initializedBatchCount == 4

initializedBatchSize == 1

\* the values the settings commands pass
Widths == { 512, 768 }

Heights == { 512, 768 }

BatchCounts == { 0, 2 }

BatchSizes == { 1 }

\* defaultSettingsRepo.GetByMemberID(ctx, botID): the stored record, or an
\* error (NotFoundError when there is none)
GetByMemberID(ok) == IF ok THEN settings.stored ELSE NoSettings

\* defaultSettingsRepo.Upsert(ctx, record): the record is stored and returned,
\* or an error and the store is as before
Upsert(record, ok) == IF ok THEN record ELSE settings.stored

\* GetBotDefaultSettings: the cached record when there is one, else the record
\* read from the repository, which becomes the cached one; NoSettings for the
\* error of the read
GetBotDefaultSettings(read) ==
    IF settings.cached # NoSettings THEN settings.cached ELSE GetByMemberID(read)

\* fillInBotDefaults: a nil record becomes a new one, and each zero field
\* takes its initial value
fillInBotDefaults(s) ==
    LET r == IF s = NoSettings
                THEN [ Width |-> 0, Height |-> 0, BatchCount |-> 0, BatchSize |-> 0 ]
                ELSE s
    IN  [ Width |-> IF r.Width = 0 THEN initializedWidth ELSE r.Width,
          Height |-> IF r.Height = 0 THEN initializedHeight ELSE r.Height,
          BatchCount |-> IF r.BatchCount = 0 THEN initializedBatchCount ELSE r.BatchCount,
          BatchSize |-> IF r.BatchSize = 0 THEN initializedBatchSize ELSE r.BatchSize ]

\* the assignments "defaultSettings.X = x" of the update operations write
\* through the pointer GetBotDefaultSettings returned, which is the cached
\* record; "q.botDefaultSettings = newDefaultSettings" follows a successful
\* Upsert only
Written(got, changed, ok) ==
    [ cached |-> changed,
      stored |-> Upsert(changed, ok),
      failed |-> IF ok THEN settings.failed ELSE settings.failed + 1 ]

\* a read of the settings (defaultWidth, defaultHeight, defaultBatchCount,
\* defaultBatchSize call GetBotDefaultSettings)
ReadDefaults(read) ==
    /\ pipeline = "settings"
    /\ settings' = [ settings EXCEPT !.cached = GetBotDefaultSettings(read) ]
    /\ UNCHANGED << qvars, dvars, parse, api, stop >>

\* initializeOrGetBotDefaults: an error of the read other than NotFoundError
\* is returned; else the record is filled in and, when a field was filled,
\* upserted.  A record made for a nil one is not cached
initializeOrGetBotDefaults(read, ok) ==
    /\ pipeline = "settings"
    /\ ok \/ settings.failed < MaxFailedUpserts
    /\ LET got == GetBotDefaultSettings(read)
           filled == fillInBotDefaults(got)
       IN  IF got = NoSettings /\ settings.stored # NoSettings
              THEN settings' = settings
              ELSE IF filled = got
              THEN settings' = [ settings EXCEPT !.cached = got ]
              ELSE settings' = [ Written(got, filled, ok) EXCEPT
                                    !.cached = IF got = NoSettings THEN NoSettings ELSE filled ]
    /\ UNCHANGED << qvars, dvars, parse, api, stop >>

UpdateDefaultDimensions(width, height, read, ok) ==
    /\ pipeline = "settings"
    /\ ok \/ settings.failed < MaxFailedUpserts
    /\ LET got == GetBotDefaultSettings(read)
       IN  settings' = IF got = NoSettings THEN settings
                       ELSE Written(got, [ got EXCEPT !.Width = width, !.Height = height ], ok)
    /\ UNCHANGED << qvars, dvars, parse, api, stop >>

UpdateDefaultBatch(batchCount, batchSize, read, ok) ==
    /\ pipeline = "settings"
    /\ ok \/ settings.failed < MaxFailedUpserts
    /\ LET got == GetBotDefaultSettings(read)
       IN  settings' = IF got = NoSettings THEN settings
                       ELSE Written(got, [ got EXCEPT !.BatchCount = batchCount,
                                                      !.BatchSize = batchSize ], ok)
    /\ UNCHANGED << qvars, dvars, parse, api, stop >>

InitSettings ==
    /\ pipeline = "settings"
    /\ InitQueue /\ IdleGrid /\ IdleParse
    /\ IdleApi /\ IdleSettings /\ IdleStop

NextSettings ==
    \/ \E read \in BOOLEAN : ReadDefaults(read)
    \/ \E read \in BOOLEAN, ok \in BOOLEAN : initializeOrGetBotDefaults(read, ok)
    \/ \E width \in Widths, height \in Heights, read \in BOOLEAN, ok \in BOOLEAN :
          UpdateDefaultDimensions(width, height, read, ok)
    \/ \E batchCount \in BatchCounts, batchSize \in BatchSizes, read \in BOOLEAN,
          ok \in BOOLEAN : UpdateDefaultBatch(batchCount, batchSize, read, ok)

SpecSettings == InitSettings /\ [][NextSettings]_vars

\* ================================================= the backend API client
\* the operations of apiImplementation that talk to the backend
ApiOps == { "TextToImageRaw", "ImageToImageRequest", "UpscaleImage",
            "UpdateConfiguration", "Interrupt", "GetCurrentProgress" }

\* the operations whose body opens with "if !handlers.CheckAPIAlive(api.host)"
ProbesFirst(op) == op # "GetCurrentProgress"

\* the operations with "if req == nil { return nil, errors.New("missing request") }"
TakesRequest(op) == op \in { "TextToImageRaw", "ImageToImageRequest", "UpscaleImage" }

\* the backend goes down or comes back, at any moment
BackendChanges ==
    /\ api' = [ api EXCEPT !.alive = ~@, !.down = FALSE ]
    /\ UNCHANGED << qvars, dvars, parse, settings, stop >>

\* a caller enters one of the operations, with a request (req) or with nil;
\* down records that the backend has been unreachable since the call began
ApiCall(op, req) ==
    /\ api.pc = "idle"
    /\ req \/ TakesRequest(op)
    /\ api' = [ api EXCEPT !.pc = IF ProbesFirst(op) THEN "probe" ELSE "request",
                           !.op = op, !.req = req, !.down = ~api.alive,
                           !.probes = 0, !.requests = 0, !.ret = "none" ]
    /\ UNCHANGED << qvars, dvars, parse, settings, stop >>

\* "if !handlers.CheckAPIAlive(api.host) { return ..., errors.New(handlers.DeadAPI) }";
\* UpscaleImage passes it a second time inside TextToImageRequest
CheckAPIAlive ==
    /\ api.pc = "probe"
    /\ api' = [ api EXCEPT
                  !.probes = @ + 1,
                  !.pc = IF ~api.alive \/ ~api.req THEN "returned"
                         ELSE IF api.op = "UpscaleImage" /\ api.probes = 0 THEN "probe"
                         ELSE "request",
                  !.ret = IF ~api.alive THEN "DeadAPI"
                          ELSE IF ~api.req THEN "missing request" ELSE @ ]
    /\ UNCHANGED << qvars, dvars, parse, settings, stop >>

\* Do: the HTTP request is sent; the error of client.Do, a status other than
\* 200 or a body that does not decode is returned as the error, and
\* UpscaleImage goes on to its second request
Do(answer) ==
    /\ api.pc = "request"
    /\ LET err == IF api.alive THEN answer ELSE "client.Do" IN
       api' = [ api EXCEPT
                  !.requests = @ + 1,
                  !.pc = IF err = "nil" /\ api.op = "UpscaleImage" /\ api.requests = 0
                            THEN "request" ELSE "returned",
                  !.ret = err ]
    /\ UNCHANGED << qvars, dvars, parse, settings, stop >>

\* the caller has its result and another call can begin
ApiReturn ==
    /\ api.pc = "returned"
    /\ api' = [ api EXCEPT !.pc = "idle", !.op = "none", !.req = TRUE, !.down = FALSE,
                           !.probes = 0, !.requests = 0, !.ret = "none" ]
    /\ UNCHANGED << qvars, dvars, parse, settings, stop >>

InitApi == pipeline = "api" /\ InitQueue /\ IdleGrid /\ IdleParse /\ IdleApi /\ IdleSettings /\ IdleStop

NextApi ==
    \/ BackendChanges
    \/ \E op \in ApiOps, req \in BOOLEAN : ApiCall(op, req)
    \/ CheckAPIAlive
    \/ \E answer \in { "nil", "unexpected status code", "Decode" } : Do(answer)
    \/ ApiReturn

SpecApi == InitApi /\ [][NextApi]_vars

\* ------------------------------------------------------- the two queues
Init == pipeline \in { "primary", "secondary" } /\ InitQueue /\ IdleGrid /\ IdleParse /\ IdleApi /\ IdleSettings /\ IdleStop

Next == NextPrimary \/ Poller \/ NextSecondary

Spec == Init /\ [][Next]_vars

\* the primary queue alone, with the scheduling the Go runtime gives: the
\* polling goroutine and the driver goroutine keep running, and a backend call
\* returns (the HTTP client has a 10-minute timeout)
InitPrimary == pipeline = "primary" /\ InitQueue /\ IdleGrid /\ IdleParse /\ IdleApi /\ IdleSettings /\ IdleStop

NextQueue == NextPrimary \/ Poller

FairSpec == InitPrimary /\ [][NextQueue]_vars /\ WF_vars(Polling) /\ WF_vars(Driver)

\* the primary queue where, besides, the Progress Poller and every caller of
\* Interrupt keep running: a receive or a send that can complete does complete
FairInterruptSpec ==
    /\ InitPrimary /\ [][NextQueue]_vars
    /\ WF_vars(Polling) /\ WF_vars(Driver) /\ WF_vars(Poller)
    /\ \A k \in Calls : WF_vars(Interrupt(k))

\* the enqueue path alone, at the channel's real capacity: calls of AddImagine
\* made one after the other and nothing receiving
NextEnqueue ==
    \/ /\ Len(item) < MaxAddCalls
       /\ \A j \in Jobs : add[j].pc # "sent"
       /\ AddImagineSend(ItemTypeImagine, TRUE)
    \/ \E j \in Jobs : AddImagineReturn(j)

SpecEnqueue == InitPrimary /\ [][NextEnqueue]_vars

\* the enqueue path of the secondary queue alone, at the channel's real
\* capacity and with nothing receiving: the callers come one after the other
\* until no more than RaceWindow slots are free, and from then on up to
\* MaxConcurrentAdds callers are inside Add at a time
InitSecondary == pipeline = "secondary" /\ InitQueue /\ IdleGrid /\ IdleParse /\ IdleApi /\ IdleSettings /\ IdleStop

\* Add: "return len(q.queue), nil"
NAIAddReturn(j) ==
    /\ ~crashed /\ pipeline = "secondary"
    /\ add[j].pc = "sent"
    /\ add' = [ add EXCEPT ![j] = [ pc |-> "returned", pos |-> Len(queue) ] ]
    /\ UNCHANGED << stop, settings, api, parse, dvars, pipeline, item, queue, sendq, currentImagine,
                    cancelledItems, pollpc, crashed, drv, intr, waiting, hist >>

NextNAIEnqueue ==
    \/ /\ Len(item) < MaxNAIAddCalls
       /\ Cardinality({ j \in Jobs : add[j].pc = "checked" }) <
             (IF Len(queue) + RaceWindow >= NAIQueueCap THEN MaxConcurrentAdds ELSE 1)
       /\ \/ Len(queue) + RaceWindow >= NAIQueueCap
          \/ \A j \in Jobs : add[j].pc = "returned"
       /\ NAIAddCheck("ItemTypeImage", TRUE)
    \/ \E j \in Jobs : NAIAddSend(j)
    \/ \E j \in Jobs : NAIAddReturn(j)

SpecNAIEnqueue == InitSecondary /\ [][NextNAIEnqueue]_vars

\* the primary queue with the return of AddImagine as a step of its own: the
\* caller's goroutine reads len(q.queue) after its send, while the polling
\* goroutine and the other callers run
NextPosition ==
    \/ AddImagine
    \/ \E j \in Jobs : AddImagineReturn(j)
    \/ Cancel
    \/ Polling
    \/ Driver

SpecPosition == InitPrimary /\ [][NextPosition]_vars

\* the first position refresh of the secondary queue at the channel's real
\* capacity: up to RefreshHead jobs are enqueued before the first job is
\* received, the first job runs and ends in done(), and while updateWaiting has
\* the waiting jobs out of the channel further callers of Add come, one after
\* the other
NextRefresh ==
    \/ /\ Len(item) < MaxRefreshAddCalls
       /\ \A j \in Jobs : add[j].pc # "checked"
       /\ \/ Len(item) < RefreshHead /\ hist.order = << >>
          \/ waiting.active /\ waiting.left = 0
       /\ NAIAddCheck("ItemTypeImage", TRUE)
    \/ \E j \in Jobs : NAIAddSend(j)
    \/ hist.order = << >> /\ (NAIStartTick \/ NAINext)
    \/ processCurrentItem
    \/ \E ok \in BOOLEAN : processCurrentItemReturns(ok)
    \/ NAIDone
    \/ updateWaitingTake
    \/ \E j \in Jobs : updateWaitingFinished(j)
    \/ updateWaitingPutBack
    \/ updateWaitingReturn

SpecRefresh == InitSecondary /\ [][NextRefresh]_vars

\* ================================================================ properties
HasHandle(j) == item[j].DiscordInteraction # NoInteraction

\* C1: in every reachable state at most one job is Current, that is dispatched
\* to a driver and not yet through done(), whatever the interleaving of enqueue,
\* poll ticks, cancel, interrupt and completion; and a job is dequeued into the
\* Current slot only when the slot is empty and no dispatched job is left.
AtMostOneCurrent ==
    /\ [](Cardinality({ j \in Jobs : IsCurrent(j) }) <= 1)
    /\ [][(currentImagine' # currentImagine /\ currentImagine' # NoJob)
             => (currentImagine = NoJob /\ \A j \in Jobs : ~IsCurrent(j))]_vars

\* the poll loop is about to pull with a job waiting while another is Current
PullWhileCurrent ==
    /\ pollpc = "pull"
    /\ Len(queue) > 0
    /\ \E j \in Jobs : IsCurrent(j) /\ currentImagine = j

\* C2: every job with a destination handle that becomes Current eventually
\* passes through done(), which clears Current, on every path; and a job waiting
\* in the FIFO is eventually dequeued unless the poll loop was stopped or the
\* process has ended.
EveryCurrentJobPassesDone ==
    /\ \A j \in 1 .. MaxJobs :
          (j \in Jobs /\ currentImagine = j /\ HasHandle(j)) ~> (currentImagine = NoJob)
    /\ \A j \in 1 .. MaxJobs :
          (j \in Jobs /\ IsQueued(j)) ~> (~IsQueued(j) \/ pollpc = "stopped" \/ crashed)

\* a cancelled job was skipped, another went through its driver, Current is clear
BothJobsPassedDone ==
    /\ hist.skipped # {}
    /\ \E j \in Jobs : drv[j].pc = "returned"
    /\ currentImagine = NoJob
    /\ pipeline = "primary"

\* C3: a call of AddImagine that finds the FIFO holding 100 jobs has returned
\* the capacity error (position -1) without blocking, and the FIFO still holds 100.
AddOnFullQueueFails ==
    \A j \in hist.addFull :
        /\ add[j].pc = "returned"
        /\ add[j].pos = -1
        /\ Len(queue) = QueueCap

\* C4: jobs leave the FIFO for the Current slot in the order in which they were
\* enqueued (a cancelled job is dropped there), in the primary and in the
\* secondary queue.
CurrentOrderIsEnqueueOrder ==
    \A a, b \in 1 .. Len(hist.order) :
        a < b => hist.order[a] < hist.order[b]

\* C5: in the primary queue a job whose cancel completed while it was Queued
\* never starts a driver, gets no backend call and no reply, and the step that
\* dequeues it removes its registry entry.
CancelledWhileQueuedNeverRuns ==
    /\ [](pipeline = "primary" =>
            \A j \in hist.cancelQueued :
                /\ drv[j].pc = "none"
                /\ j \notin hist.backendCalls
                /\ j \notin hist.replied)
    /\ [][pipeline = "primary" =>
            \A j \in hist.cancelQueued :
                (currentImagine = j /\ pollpc = "pulled" /\ pollpc' # "pulled")
                    => (pollpc' = "skip" /\ j \notin cancelledItems')]_vars

\* a job cancelled while Queued has been dequeued and dropped
CancelledJobSkipped ==
    /\ pipeline = "primary"
    /\ \E j \in hist.cancelQueued : j \in hist.skipped /\ currentImagine = NoJob

\* C6: a cancel called with the handle of the Current job adds no registry entry
\* for that handle.
CancelOfCurrentLeavesRegistry ==
    [][\A h \in Jobs :
          (IsCurrent(h) /\ h \notin cancelledItems) => h \notin cancelledItems']_vars

Steps == SelectSeq(calls.trace, LAMBDA e : e # "progress")

Happened(e) == \E i \in 1 .. Len(Steps) : Steps[i] = e

Rank(e) ==
    CASE e = "patch" -> 1
      [] e = "read" -> 2
      [] e = "dispatch" -> 3
      [] e = "final" -> 4
      [] e = "revert" -> 5

\* C8: once processImagineGrid has returned after a completed model switch and
\* a dispatched generation, the live configuration equals the configuration
\* recorded before the switch.
LiveRestoredAfterJob ==
    (grid.pc = "returned" /\ Happened("read") /\ Happened("dispatch"))
        => live = originalConfig

\* C9: when the requested checkpoint, VAE and hypernetwork equal the live
\* configuration on all three slots, the job issues no UpdateConfiguration call.
NoPatchWhenMatching ==
    ( /\ calls.given.Checkpoint = calls.was.SDModelCheckpoint
      /\ calls.given.VAE = calls.was.SDVae
      /\ calls.given.Hypernetwork = calls.was.SDHypernetwork )
        => calls.updates = 0

\* a job whose three slots matched has gone through revertModels and returned
MatchingJobReturned ==
    /\ calls.given.Checkpoint = calls.was.SDModelCheckpoint
    /\ calls.given.VAE = calls.was.SDVae
    /\ calls.given.Hypernetwork = calls.was.SDHypernetwork
    /\ grid.pc = "returned"
    /\ Happened("revert")

\* C10: the steps of one job happen in the order patch, confirming read,
\* dispatch, final reply, revert, none without the ones before it: a switch that
\* was needed precedes the dispatch, the dispatch precedes the final reply, the
\* final reply precedes the revert.
StepsInOrder ==
    /\ \A a, b \in 1 .. Len(Steps) : a < b => Rank(Steps[a]) < Rank(Steps[b])
    /\ Happened("read") => Happened("patch")
    /\ Happened("dispatch") =>
          \/ Happened("read")
          \/ /\ calls.given.Checkpoint = calls.was.SDModelCheckpoint
             /\ calls.given.VAE = calls.was.SDVae
             /\ calls.given.Hypernetwork = calls.was.SDHypernetwork
    /\ Happened("final") => Happened("dispatch")
    /\ Happened("revert") => Happened("final")
    /\ grid.pc = "generating" => (Happened("dispatch") /\ ~Happened("final"))
    /\ grid.pc = "revert" => (Happened("final") /\ ~Happened("revert"))

\* a job that switched models has made all five steps and returned
AllStepsMade ==
    /\ Steps = << "patch", "read", "dispatch", "final", "revert" >>
    /\ grid.pc = "returned"

\* C11: a job-terminal error of one job (here a failed progress query, the
\* poller's timeout, a failed backend interrupt) gets one error reply and no
\* reply, error or final, comes after it.
TerminalErrorRepliedOnce ==
    /\ \A i \in 1 .. Len(calls.replies) :
          calls.replies[i] = "error" => i = Len(calls.replies)
    /\ Cardinality({ i \in 1 .. Len(calls.replies) : calls.replies[i] = "error" }) <= 1

\* C12: once a progress query has returned an error the poller has surfaced it
\* with an error edit and has terminated; from then on it makes no progress
\* query and renders no status edit.
QueryErrorEndsPoller ==
    /\ [](calls.queryFailed =>
            /\ grid.poller = "exited"
            /\ \E i \in 1 .. Len(calls.replies) : calls.replies[i] = "error")
    /\ [][calls.queryFailed =>
            (calls.ticks' = calls.ticks /\ calls.edits' = calls.edits)]_vars

\* the query failed on a later tick, after a status edit, and the job went on
\* to return
QueryFailedAfterEdit ==
    /\ calls.queryFailed
    /\ calls.ticks >= 2
    /\ calls.edits >= 1
    /\ grid.pc = "returned"

\* C13: a tick whose progress query returns zero renders no status edit, makes
\* no reply and leaves the poller polling; after any number of ticks that all
\* returned zero no status edit has been made.
ZeroProgressRendersNothing ==
    /\ [](calls.zeros = calls.ticks => calls.edits = 0)
    /\ [](calls.edits + calls.zeros <= calls.ticks)
    /\ [][calls.zeros' # calls.zeros =>
            /\ calls.edits' = calls.edits
            /\ calls.replies' = calls.replies
            /\ grid'.poller = "select"]_vars

\* three zero-progress ticks in a row: nothing rendered, the poller still polls
ThreeZeroTicks ==
    /\ calls.zeros = 3
    /\ calls.ticks = 3
    /\ calls.edits = 0
    /\ grid.poller = "select"

\* the two terms of a directive W:H with positive W # H
RatioTerms(ar) ==
    LET parts == Split(ar, ":", 1)
    IN  IF Len(parts) = 2 /\ ~Atoi(parts[1]).err /\ ~Atoi(parts[2]).err
           THEN [ ok |-> /\ Atoi(parts[1]).val > 0
                         /\ Atoi(parts[2]).val > 0
                         /\ Atoi(parts[1]).val # Atoi(parts[2]).val,
                  W |-> Atoi(parts[1]).val,
                  H |-> Atoi(parts[2]).val ]
           ELSE [ ok |-> FALSE, W |-> 0, H |-> 0 ]

\* the derivation has applied the aspect ratio
AspectApplied == parse.pc \in { "zoom", "step", "cfgscale", "seed", "derived" }

InSeedRange(v) == ~Int64Less(v, Int64(TRUE, << "1" >>)) /\ ~Int64Less(MaxInt64, v)

\* C15: the seed produced by parsing, by extractSeedFromPrompt and by the
\* derivation of processCurrentImagine, lies in [-1, 2^63 - 1] for every seed
\* directive and every default seed, and is -1 when there is no seed directive
\* and the default seed is 0.
SeedWithinRange ==
    /\ (parse.pc = "extracted" /\ parse.result.of = "seed" /\ ~parse.result.value.err) =>
          /\ InSeedRange(parse.result.value.Seed)
          /\ ( /\ ~FindStringSubmatch("digits", << "-", "-", "s", "e", "e", "d", " " >>, parse.c.Prompt).ok
               /\ parse.c.Seed = Int64(FALSE, << "0" >>) )
                => parse.result.value.Seed = Int64(TRUE, << "1" >>)
    /\ parse.pc = "derived" =>
          /\ InSeedRange(parse.newGeneration.Seed)
          /\ (~HasKey(<< "s", "e", "e", "d" >>) /\ parse.c.Seed = Int64(FALSE, << "0" >>))
                => parse.newGeneration.Seed = Int64(TRUE, << "1" >>)

\* C16: in the generation parameters processCurrentImagine derives, a --cfgscale
\* value outside [1.0, 30.0] and a --zoom value outside [1.0, 4.0] give the
\* default of that parameter, and a value inside the range is used as given.
ScaleOutOfRangeYieldsDefault ==
    parse.pc = "derived" =>
        /\ (HasKey(<< "c", "f", "g", "s", "c", "a", "l", "e" >>) /\ ~ParseFloat(parse.parameters[<< "c", "f", "g", "s", "c", "a", "l", "e" >>]).err) =>
              LET v == ParseFloat(parse.parameters[<< "c", "f", "g", "s", "c", "a", "l", "e" >>]).val
              IN  parse.newGeneration.CFGScale =
                      IF v < 100 \/ v > 3000 THEN parse.c.CfgScale ELSE v
        /\ (HasKey(<< "z", "o", "o", "m" >>) /\ ~ParseFloat(parse.parameters[<< "z", "o", "o", "m" >>]).err) =>
              LET v == ParseFloat(parse.parameters[<< "z", "o", "o", "m" >>]).val
              IN  parse.newGeneration.HrScale =
                      IF v < 100 \/ v > 400 THEN parse.c.HiresUpscaleRate ELSE v

\* C17: the prompt "a cat --ar 16:9 --step 30 --seed 42 extra" on a 512 x 512
\* base derives the sanitized prompt "a cat extra", width 912, height 512,
\* steps 30 and seed 42.
ExamplePromptParses ==
    ( /\ parse.pc = "derived"
      /\ parse.c.Prompt = << "a", " ", "c", "a", "t", " ", "-", "-", "a", "r", " ", "1", "6", ":", "9", " ", "-", "-", "s", "t", "e", "p", " ", "3", "0", " ", "-", "-", "s", "e", "e", "d", " ", "4", "2", " ", "e", "x", "t", "r", "a" >>
      /\ parse.c.AspectRatio = << >>
      /\ parse.defaultWidth = 512
      /\ parse.defaultHeight = 512 )
        => /\ parse.newGeneration.Prompt = << "a", " ", "c", "a", "t", " ", "e", "x", "t", "r", "a" >>
           /\ parse.newGeneration.Width = 912
           /\ parse.newGeneration.Height = 512
           /\ parse.newGeneration.Steps = 30
           /\ parse.newGeneration.Seed = Int64(FALSE, << "4", "2" >>)

\* C18: no caller of NAIQueue.Add is ever blocked on the channel, and a call that
\* found the FIFO full has returned the error (position -1).
NAIAddNeverBlocks ==
    /\ \A j \in Jobs : add[j].pc # "blocked"
    /\ \A j \in hist.addFull : add[j].pc = "returned" /\ add[j].pos = -1

\* C19: a successful enqueue returns the job's 1-based position in the FIFO,
\* the number of jobs still queued ahead of it plus one, also while the poll
\* loop dequeues or other callers enqueue; the position returned is never 0.
\* Every call of AddImagine or Add that has returned without an error holds a
\* position of at least 1.
EnqueueReturnsPosition ==
    \A j \in Jobs :
        (add[j].pc = "returned" /\ add[j].pos # -1) => add[j].pos >= 1

\* C20: a job enqueued with no destination handle is never run: no driver is
\* started for it and no backend call is made for it, in either queue.
NoHandleNeverRuns ==
    \A j \in Jobs :
        ~HasHandle(j) => (drv[j].pc = "none" /\ j \notin hist.backendCalls)

\* a job with no handle was received after another job had been received, and
\* the polling goroutine panicked on it
NoHandleJobPanicked ==
    /\ crashed
    /\ currentImagine # NoJob
    /\ ~HasHandle(currentImagine)
    /\ Len(hist.order) >= 2
    /\ pollpc = "pulled"

\* C21: a protocol violation on one job does not terminate the poll loop: a
\* step taken while a job with no destination handle is at the head, or while a
\* pull finds Current non-nil with jobs waiting, leaves the polling goroutine
\* running (it has neither panicked nor stopped).
ProtocolViolationKeepsPolling ==
    [][ ( \/ /\ pollpc = "pulled"
             /\ currentImagine # NoJob
             /\ ~HasHandle(currentImagine)
          \/ /\ pollpc = "pull"
             /\ Len(queue) > 0
             /\ AlreadyProcessing )
        => (~crashed' /\ pollpc' # "stopped") ]_vars

\* C22: every backend-dependent operation of the API client probes the backend
\* first and, when the backend is unreachable, returns the one backend-unreachable
\* error without sending its request and without retrying.  A call that has
\* returned while the backend was unreachable throughout made one probe, sent no
\* request and returned DeadAPI.
UnreachableShortCircuits ==
    (api.pc = "returned" /\ api.down)
        => (api.ret = "DeadAPI" /\ api.requests = 0 /\ api.probes = 1)

\* C23: every write to Current and every access to the Cancellation Registry is
\* made under the queue's one mutex, so the poll loop's dequeue (setting
\* Current, then testing and deleting the registry entry) never overlaps a
\* cancel or a done.  Between the receive that sets Current and the registry
\* test that follows it, no other goroutine changes the registry or Current.
DequeueSerialized ==
    [][ (pollpc = "pulled" /\ pollpc' = "pulled")
            => (cancelledItems' = cancelledItems /\ currentImagine' = currentImagine) ]_vars

\* C24: every call of Interrupt made while a job is Current eventually returns:
\* the send on the job's interrupt channel never blocks forever, also when the
\* Progress Poller has exited or was never started.  A caller that has reached
\* the send gets its return (unless the process has ended or the poll loop was
\* stopped).
InterruptSendReturns ==
    \A k \in Calls :
        (intr[k].pc = "sending")
            ~> (intr[k].pc = "returned" \/ crashed \/ pollpc = "stopped")

\* C25: no live progress status update is rendered after the driver has
\* rendered the job's final reply: from the state in which the final reply is
\* among the replies, no step adds a status edit of the Progress Poller.
NoStatusEditAfterFinal ==
    [][ (\E i \in 1 .. Len(calls.replies) : calls.replies[i] = "final")
            => calls.edits' = calls.edits ]_vars

\* C26: dispatching a dequeued job does not block the poll loop, in either
\* queue: while a job's backend call has not returned, the polling goroutine is
\* in its own loop (at the select that takes the 1-second tick and the stop
\* request, or at the loop test of the pull), not waiting for that call.
DispatchDoesNotBlockPolling ==
    ( /\ ~crashed
      /\ \/ \E d \in Jobs : drv[d].pc = "generating"
         \/ /\ currentImagine # NoJob
            /\ currentImagine \in hist.backendCalls
            /\ pipeline = "secondary" )
        => pollpc \in { "select", "pull", "stopped" }

\* C27: Interrupt never dereferences an absent Current job: when done() clears
\* Current while a call of Interrupt is under way, the call returns NoActiveJob
\* or signals the job that was Current at its check, and never faults.  No step
\* of Interrupt past its check finds Current nil and panics.
InterruptNeverFaults ==
    [][ \A k \in Calls :
          ~( /\ currentImagine = NoJob
             /\ ~crashed /\ crashed'
             /\ (InterruptInspect(k) \/ InterruptMake(k) \/ InterruptSend(k)) ) ]_vars

\* C28: the Progress Poller started for a job always terminates once the
\* driver returns from processing that job, on every return path after the
\* poller was started: at the return the poller has exited or its completion
\* channel is closed, and from there it does exit.
PollerEndsWithDriver ==
    /\ []( (grid.pc = "returned" /\ grid.poller = "select")
              => grid.generationDone = "closed" )
    /\ ( (grid.pc = "returned" /\ grid.poller # "off") ~> (grid.poller = "exited") )

\* the driver returned on the unknown-kind path or on an error of the
\* generation with the poller still polling, and the poller left on the close
PollerLeftOnClose ==
    /\ grid.pc = "returned" /\ grid.err
    /\ grid.poller = "exited"
    /\ grid.generationDone = "closed"
    /\ calls.replies = << >>
    /\ calls.ticks = 0

\* C29: the driver never blocks when signalling completion: the send of the
\* completion signal after the backend call returns succeeds at once, also
\* when the Progress Poller has already exited.
CompletionSendNeverBlocks == grid.pc # "blocked"

\* the completion signal was sent after the poller had left on a failed
\* progress query, and the driver went on to the final reply
SentAfterPollerExited ==
    /\ grid.pc = "final"
    /\ grid.generationDone = "sent"
    /\ grid.poller = "exited"
    /\ calls.queryFailed

\* C30: the position refresh of the secondary queue (updateWaiting, run inside
\* done) neither loses nor duplicates jobs, also when Add fills the FIFO during
\* the refresh: outside a refresh, every job that was enqueued and has not yet
\* been received by the poll loop is in the channel exactly once.
RefreshKeepsJobs ==
    ~waiting.active =>
        \A j \in Jobs :
            ( /\ add[j].pc = "sent"
              /\ \A i \in 1 .. Len(hist.order) : hist.order[i] # j )
                => Cardinality({ i \in 1 .. Len(queue) : queue[i] = j }) = 1

\* C31: in the secondary queue a dequeued job of unknown kind receives an error
\* reply addressed to its own handle and Current is released, without faulting
\* the poll loop: the reply step of the unknown-kind branch does not panic.
UnknownKindRepliedWithoutFault ==
    [][ NAIUnknownReply => ~crashed' ]_vars

\* C32: the configuration patch sent before generation carries a slot only if
\* the job's resolved name for that slot differs from the name loaded on the
\* backend: at the step that sends the patch, every slot the payload sets
\* differs from that slot of the configuration read before.
PatchCarriesOnlyDifferingSlots ==
    [][ (grid.pc = "patch" /\ calls.updates' = calls.updates + 1)
            => LET POST == calls'.posted IN
               /\ POST.SDModelCheckpoint # Nil
                     => ~ptrStringCompare(POST.SDModelCheckpoint, config.SDModelCheckpoint)
               /\ POST.SDVae # Nil
                     => ~ptrStringCompare(POST.SDVae, config.SDVae)
               /\ POST.SDHypernetwork # Nil
                     => ~ptrStringCompare(POST.SDHypernetwork, config.SDHypernetwork) ]_vars

\* what the payload carries for a slot whose requested value is toLoad: nothing
\* for a blank, the sentinel itself, the best-ranked match of any other name
\* that has one, and the name itself when nothing matches
SlotAsDescribed(toLoad, posted) ==
    /\ toLoad = Ptr("") => posted = Nil
    /\ toLoad = Ptr("None") => posted = toLoad
    /\ toLoad \notin { Nil, Ptr(""), Ptr("None") } =>
          IF \E i \in DOMAIN Inventory : FuzzyMatches(toLoad[1], Inventory[i])
             THEN \E i \in DOMAIN Inventory :
                    /\ FuzzyMatches(toLoad[1], Inventory[i])
                    /\ \A j \in DOMAIN Inventory : FuzzyMatches(toLoad[1], Inventory[j]) =>
                          \/ FuzzyScore(toLoad[1], Inventory[i]) > FuzzyScore(toLoad[1], Inventory[j])
                          \/ /\ FuzzyScore(toLoad[1], Inventory[i]) = FuzzyScore(toLoad[1], Inventory[j])
                             /\ i <= j
                    /\ posted = Ptr(Inventory[i])
             ELSE posted = toLoad

\* a name that is neither blank nor the sentinel, in a slot whose inventory
\* could not be read
Unread(toLoad, loaded) == ~loaded /\ toLoad \notin { Nil, Ptr(""), Ptr("None") }

\* C33 (as stated): per slot, the payload of the patch leaves a blank name unset, carries
\* "None" literally, carries the top-ranked fuzzy match of any other name that
\* matches an inventory entry, and carries the name itself when none matches.
LookupMapsEachSlot ==
    [][ (grid.pc = "patch" /\ calls'.updates = calls.updates + 1)
          => /\ SlotAsDescribed(request.Checkpoint, calls'.posted.SDModelCheckpoint)
             /\ SlotAsDescribed(request.VAE, calls'.posted.SDVae)
             /\ SlotAsDescribed(request.Hypernetwork, calls'.posted.SDHypernetwork) ]_vars

\* C33 (as amended): per slot, a blank name is left unset and "None" is
\* carried literally; any other name whose inventory is read is replaced by
\* its top-ranked fuzzy match, or carried unchanged when nothing matches; a
\* slot whose inventory cannot be read is left unset
LookupMapsEachReadSlot ==
    [][ (grid.pc = "patch" /\ calls'.updates = calls.updates + 1)
          => /\ IF Unread(request.Checkpoint, calls.caches.Checkpoint)
                   THEN calls'.posted.SDModelCheckpoint = Nil
                   ELSE SlotAsDescribed(request.Checkpoint, calls'.posted.SDModelCheckpoint)
             /\ IF Unread(request.VAE, calls.caches.VAE)
                   THEN calls'.posted.SDVae = Nil
                   ELSE SlotAsDescribed(request.VAE, calls'.posted.SDVae)
             /\ IF Unread(request.Hypernetwork, calls.caches.Hypernetwork)
                   THEN calls'.posted.SDHypernetwork = Nil
                   ELSE SlotAsDescribed(request.Hypernetwork, calls'.posted.SDHypernetwork) ]_vars

\* a patch was sent for a fragment with two matches, a name with none, and a
\* name whose inventory could not be read
LookedUpThreeWays ==
    /\ calls.updates = 1
    /\ calls.given.Checkpoint = Ptr("m") /\ calls.caches.Checkpoint
    /\ calls.posted.SDModelCheckpoint = Ptr("m1")
    /\ calls.given.VAE = Ptr("x") /\ calls.caches.VAE
    /\ calls.posted.SDVae = Ptr("x")
    /\ calls.given.Hypernetwork = Ptr("2") /\ ~calls.caches.Hypernetwork
    /\ calls.posted.SDHypernetwork = Nil

\* C34: a poller that receives an interrupt signal calls the backend's
\* interrupt once; when the call fails it shows the error and stops with no
\* "interrupted" update, when it succeeds it issues one "interrupted" update
\* and stops; after the signal no further tick is processed.
InterruptHandledOnce ==
    [][ /\ (\E ok \in BOOLEAN : updateProgressBarStop(ok))
            => /\ calls'.interrupts = calls.interrupts + 1
               /\ grid'.poller = "exited"
               /\ IF calls'.interruptErr
                     THEN /\ calls'.replies = Append(calls.replies, "error")
                          /\ calls'.interrupted = calls.interrupted
                     ELSE /\ calls'.replies = calls.replies
                          /\ calls'.interrupted = calls.interrupted + 1
        /\ calls.interrupts > 0
            => /\ calls'.ticks = calls.ticks
               /\ calls'.interrupts = calls.interrupts
               /\ calls'.interrupted = calls.interrupted ]_vars

\* the poller ticked, then an interrupt arrived and the backend accepted it
InterruptedAfterTicks ==
    /\ calls.ticks > 0
    /\ calls.interrupts = 1 /\ ~calls.interruptErr /\ calls.interrupted = 1
    /\ grid.poller = "exited"

\* C35: the poller's timeout is armed once, when the poller starts, and no
\* tick re-arms it; when it has fired and its case is selected the poller
\* shows one timeout status and stops, and makes no further progress query.
TimeoutArmedOnce ==
    [][ /\ grid'.timeout # grid.timeout
            => \/ grid.timeout = "unarmed" /\ grid'.timeout = "armed" /\ grid.poller = "off"
               \/ grid.timeout = "armed" /\ grid'.timeout = "fired"
        /\ updateProgressBarTimeout
            => /\ grid.timeout = "fired"
               /\ calls'.replies = Append(calls.replies, "error")
               /\ calls'.ticks = calls.ticks
               /\ grid'.poller = "exited"
        /\ grid.poller = "exited" => calls'.ticks = calls.ticks ]_vars

\* the timeout fired after ticks with and without progress, its case was
\* selected and the poller has stopped
TimedOutAfterTicks ==
    /\ calls.ticks >= 2 /\ calls.zeros >= 1 /\ calls.zeros < calls.ticks
    /\ grid.timeout = "fired" /\ grid.poller = "exited"
    /\ ~calls.queryFailed /\ calls.interrupts = 0
    /\ Len(calls.replies) >= 1 /\ calls.replies[1] = "error"

\* C36: a job whose prompt carries a malformed numeric value for a recognized
\* directive fails locally and is never sent to the backend: a derivation
\* that has run to its end, from where the request is built and dispatched,
\* carried no zoom, step, cfgscale or seed value that its parser rejects.
MalformedDirectiveFailsLocally ==
    parse.pc = "derived" =>
        /\ HasKey(<< "z", "o", "o", "m" >>)
              => ~ParseFloat(parse.parameters[<< "z", "o", "o", "m" >>]).err
        /\ HasKey(<< "s", "t", "e", "p" >>)
              => ~Atoi(parse.parameters[<< "s", "t", "e", "p" >>]).err
        /\ HasKey(<< "c", "f", "g", "s", "c", "a", "l", "e" >>)
              => ~ParseFloat(parse.parameters[<< "c", "f", "g", "s", "c", "a", "l", "e" >>]).err
        /\ HasKey(<< "s", "e", "e", "d" >>)
              => ~ParseInt(parse.parameters[<< "s", "e", "e", "d" >>]).err

\* C37: the default settings are cached after the first successful read and
\* every update refreshes the cache: whatever reads and updates were made,
\* failed upserts included, a cached record equals the record last persisted.
CachedEqualsPersisted ==
    settings.cached # NoSettings => settings.cached = settings.stored

\* the secondary queue with calls of Stop
NextNAIStop ==
    \/ NAIAdd
    \/ NAICancel
    \/ NAIPolling
    \/ \E k \in StopCalls : NAIStopSend(k)
    \/ \E k \in StopCalls : NAIStopReceive(k)
    \/ \E k \in StopCalls : NAIStopClose(k)

SpecNAIStop == InitSecondary /\ [][NextNAIStop]_vars

\* C38: Stop on the secondary queue ends its polling loop and returns, no job
\* is dequeued after that, and a second call of Stop does not fault: a Stop
\* returns only when the loop has left, a loop that has left dequeues
\* nothing, and no step of a Stop call panics.
StopEndsPollingOnce ==
    [][ /\ (\E k \in StopCalls : stop'.pc[k] = "returned") => pollpc' = "stopped"
        /\ pollpc = "stopped" => hist'.order = hist.order
        /\ (\E k \in StopCalls : NAIStop(k)) => ~crashed' ]_vars

====
